---- MODULE Spec2Model ----
(***************************************************************************)
(* Verification model of the AOPML engine of ai_navigator                  *)
(* (src/aopmlengine.py) and of the code around it: the outline tree, the   *)
(* heading/list extractor, the text heuristics extractor, the document     *)
(* assembler, the XML serializer with the OPML reader that parses its      *)
(* output back (src/opml_extras_v3.py), and the archive export with its    *)
(* file write; beside the engine, the page outline export of the browser   *)
(* (src/ai_navigator.py), the crawler (src/minimal_crawler.py), the        *)
(* directory watcher (src/opml_loader.py) and the context capsule          *)
(* (src/navigator_rpc.py).                                                 *)
(*                                                                         *)
(* Strings are sequences of one-character strings, so that escaping,       *)
(* stripping and parsing are computed character by character.  Outline     *)
(* objects live in a heap (a sequence of records addressed by index), so   *)
(* that  Outline.add  appends a reference as the Python code does.         *)
(***************************************************************************)
EXTENDS Integers, Sequences, FiniteSets, TLC

VARIABLES
    \* --- single-document conversion (build_opml_from_html / _from_text)
    pc,         \* "start" -> "extracted" -> "built"
    payload,    \* the input document
    haveBs4,    \* the module flag _HAVE_BS4
    title,      \* the title hint passed by the caller
    cfgTitle,   \* cfg.title ("" when cfg is None or carries no title)
    outline,    \* result of html_to_outline / text_to_outline
    doc,        \* the OPMLDocument built from it
    entry,      \* the entry point called: "direct" (build_opml_from_html or
                \*   _from_text), "convert" (convert_payload_to_opml), "file"
    route,      \* the extractor the payload goes to: "html" or "text"
    opml,       \* result of _html_to_opml: the lines written and the stack
    \* --- serializer and reader (Outline.to_xml, _from_el)
    xpc,        \* "start" -> "serialized" -> "parsed"
    xheap,      \* the tree to serialize, root at object 1
    xdoc,       \* the head fields of the document around it
    xml,        \* the text Outline.to_xml returned
    xhead,      \* the head part OPMLDocument.to_xml wrote
    parsed,     \* what the reader made of the root element
    \* --- archive export (export_archive_to_opml, save_archive_page)
    table,      \* the rows of archive_pages, in insertion order
    tableOk,    \* the database and its archive_pages table can be read
    canOpen,    \* out_path can be opened for writing
    diskFull,   \* a write to out_path fails (no space left, I/O error)
    file,       \* the destination file: [exists, data]
    file0,      \* the destination file before any export started
    epc,        \* per invocation: "idle", "fetched", "writing", "done",
                \*   "error" (an exception reached the caller), "crashed"
    rows,       \* per invocation: the rows fetchall() returned
    edoc,       \* per invocation: the OPMLDocument built
    xmlText,    \* per invocation: doc.to_xml(), as a sequence of blocks
    off,        \* per invocation: blocks of xmlText written to the file
    \* --- crawler (crawl_and_archive)
    cpc,        \* "run" while the loop runs, "done" when it has returned
    seeds,      \* the starting URLs
    max_pages,  \* the cap on archived pages
    same_domain_only,
    allowed_keywords,   \* the keywords (empty: None)
    web,        \* per URL the links extract_links finds in its page
    queue,      \* the deque of (url, depth) pairs
    visited,    \* the set visited
    pages_archived,
    fetched,    \* the URLs passed to fetch_html, in order (history)
    archived,   \* the URLs passed to save_archive_page, in order (history)
    \* --- directory watcher (OpmlWatcher)
    wpc,        \* "new", "starting" (start() in its tick), "running" (the
                \*   thread between ticks), "ticking", "stopped"
    dirFiles,   \* the names of the files in the watched directory
    changes,    \* how often the directory was changed (bounded)
    wlast,      \* self._last
    wseen,      \* files, the set the tick in progress has read
    wstop,      \* self._stop is set
    reports,    \* the calls of on_change, in order (history)
    \* --- context capsule (context_capsule, build_context_capsule_for_snapshot)
    cappc,      \* "ask" -> "done", or "error" (no such snapshot)
    caprow,     \* the row of archive_pages asked for
    hard_cap_chars,
    capsule     \* the capsule returned

buildVars ==
    <<pc, payload, haveBs4, title, cfgTitle, outline, doc, entry, route, opml>>
xmlVars == <<xpc, xheap, xdoc, xml, xhead, parsed>>

exportVars == <<table, tableOk, canOpen, diskFull, file, file0, epc, rows, edoc, xmlText, off>>

crawlVars ==
    <<cpc, seeds, max_pages, same_domain_only, allowed_keywords, web, queue, visited,
      pages_archived, fetched, archived>>

watchVars == <<wpc, dirFiles, changes, wlast, wseen, wstop, reports>>

\* the parts beside the AOPML engine
capVars == <<cappc, caprow, hard_cap_chars, capsule>>

sideVars == <<crawlVars, watchVars, capVars>>

vars == <<buildVars, xmlVars, exportVars, sideVars>>

-----------------------------------------------------------------------------
(* Bounds of the model *)

MaxElems == 3     \* markup elements in one document
MaxLevel == 3     \* heading levels used in the inputs (the code takes h1..h6)
MaxLines == 3     \* lines in one plain-text payload
MaxRows == 2      \* rows in the archive_pages table
MaxLen == 2       \* characters in a label drawn from all strings
MaxTextLines == 9 \* lines in a text used for the title inference
MaxParaLines == 5 \* lines in a paragraph used for the list-marker rule
MaxSeeds == 2     \* seeds of one crawl
MaxPages == 2     \* largest max_pages of a crawl
MaxChanges == 3   \* changes of the watched directory

-----------------------------------------------------------------------------
(* Python helpers *)

\* Python's  a or b  on strings (None and "" are both falsy)
Or(a, b) == IF a # <<>> THEN a ELSE b

Last(s) == s[Len(s)]
Front(s) == SubSeq(s, 1, Len(s) - 1)

Range(s) == {s[i] : i \in 1..Len(s)}

\* s[i:].startswith(w), i counted from 1
StartsWith(s, i, w) ==
    i + Len(w) - 1 <= Len(s) /\ SubSeq(s, i, i + Len(w) - 1) = w

Max(S) == CHOOSE x \in S : \A y \in S : y <= x
Min(S) == CHOOSE x \in S : \A y \in S : x <= y

SeqsUpTo(S, n) == UNION {[1..k -> S] : k \in 0..n}

DigitChar == <<"1", "2", "3", "4", "5", "6", "7", "8", "9">>

\* str(n) for the small positive integers of the model
Str(n) == IF n = 0 THEN <<"0">> ELSE <<DigitChar[n]>>

\* string literals of the code
Document == <<"D", "o", "c", "u", "m", "e", "n", "t">>
ListLabel == <<"L", "i", "s", "t">>
Unsorted == <<"U", "n", "s", "o", "r", "t", "e", "d">>

-----------------------------------------------------------------------------
(* The values the variables of a part hold while another part runs *)

Procs == {1, 2}

NoPayload == [kind |-> "none", elems |-> <<>>, docTitle |-> <<>>, lines |-> <<>>]
NoOutline == [heap |-> <<>>, stack |-> <<>>, hids |-> <<>>, err |-> FALSE]
NoDoc == [title |-> <<>>, outlines |-> <<>>, heap |-> <<>>]
NoParse == [ok |-> FALSE, text |-> <<>>, attrs |-> <<>>]
NoFile == [exists |-> FALSE, data |-> <<>>]
NoOpml == [out |-> <<>>, stack |-> <<>>]

BuildIdle ==
    /\ pc = "idle"
    /\ payload = NoPayload
    /\ title = <<>>
    /\ cfgTitle = <<>>
    /\ outline = NoOutline
    /\ doc = NoDoc
    /\ opml = NoOpml
    /\ entry = "none"
    /\ route = "none"

XmlIdle ==
    /\ xpc = "idle"
    /\ xheap = <<>>
    /\ xdoc = [title |-> <<>>, owner_name |-> <<>>]
    /\ xml = <<>>
    /\ xhead = <<>>
    /\ parsed = NoParse

ExportIdle ==
    /\ table = <<>>
    /\ tableOk = FALSE
    /\ canOpen = FALSE
    /\ diskFull = FALSE
    /\ file = NoFile
    /\ file0 = NoFile
    /\ epc = [p \in Procs |-> "off"]
    /\ rows = [p \in Procs |-> <<>>]
    /\ edoc = [p \in Procs |-> NoDoc]
    /\ xmlText = [p \in Procs |-> <<>>]
    /\ off = [p \in Procs |-> 0]

CrawlIdle ==
    /\ cpc = "off"
    /\ seeds = <<>>
    /\ max_pages = 0
    /\ same_domain_only = FALSE
    /\ allowed_keywords = <<>>
    /\ web = <<>>
    /\ queue = <<>>
    /\ visited = {}
    /\ pages_archived = 0
    /\ fetched = <<>>
    /\ archived = <<>>

WatchIdle ==
    /\ wpc = "off"
    /\ dirFiles = {}
    /\ changes = 0
    /\ wlast = {}
    /\ wseen = {}
    /\ wstop = FALSE
    /\ reports = <<>>

CapIdle ==
    /\ cappc = "off"
    /\ caprow = <<>>
    /\ hard_cap_chars = 0
    /\ capsule = <<>>

SideIdle == CrawlIdle /\ WatchIdle /\ CapIdle

-----------------------------------------------------------------------------
(* Outline: the OPML model, aopmlengine.py 81-88 *)

\* Outline(text): a fresh node
Outline(text) == [text |-> text, children |-> <<>>, attrs |-> <<>>]

\* allocation of a fresh object; its reference is Len(heap) + 1
Alloc(heap, node) == Append(heap, node)

\* Outline.add: self.children.append(child)
add(heap, self, child) == [heap EXCEPT ![self].children = Append(@, child)]

-----------------------------------------------------------------------------
(* Markup input.  A document is the sequence of its heading, list and      *)
(* paragraph elements in document order, each with the text the parser     *)
(* reports for it (already stripped), plus the text of its <title>.        *)

Heading(lvl, text) == [tag |-> "h", lvl |-> lvl, text |-> text, items |-> <<>>]
ListEl(items) == [tag |-> "ul", lvl |-> 0, text |-> <<>>, items |-> items]
Para(text) == [tag |-> "p", lvl |-> 0, text |-> text, items |-> <<>>]

ElemTexts == {<<>>, <<"A">>}
ItemLists == {<<>>, << <<"i">> >>, << <<>>, <<"j">> >>}

Elems ==
    {Heading(l, t) : l \in 1..MaxLevel, t \in ElemTexts}
    \cup {ListEl(its) : its \in ItemLists}
    \cup {Para(t) : t \in {<<>>, <<"p">>}}

DocTitles == {<<>>, <<"W">>}

HtmlPayloads ==
    {[kind |-> "html", elems |-> es, docTitle |-> dt, lines |-> <<>>] :
        es \in SeqsUpTo(Elems, MaxElems), dt \in DocTitles}

-----------------------------------------------------------------------------
(* Heading/list extractor: aopmlengine.py 172-273 *)

\* the extraction state: the heap, the stack of (level, node) pairs, the
\* nodes made for the headings in document order (history, for the
\* properties), and whether stack[-1] was taken on an empty stack
ExtractState(heap, stack) ==
    [heap |-> heap, stack |-> stack, hids |-> <<>>, err |-> FALSE]

\* variant of the pop loop that compares with  lvl < stack[-1][0], under
\* which equal levels would nest
RECURSIVE PopStackLt(_, _)
PopStackLt(stack, lvl) ==
    IF stack # <<>> /\ lvl < Last(stack)[1]
    THEN PopStackLt(Front(stack), lvl)
    ELSE stack

\* while stack and lvl <= stack[-1][0]: stack.pop()
RECURSIVE PopStack(_, _)
PopStack(stack, lvl) ==
    IF stack # <<>> /\ lvl <= Last(stack)[1]
    THEN PopStack(Front(stack), lvl)
    ELSE stack

\* one heading: lines 244-250 and 212-216
HeadingStep(st, lvl, text) ==
    LET node == Len(st.heap) + 1
        heap1 == Alloc(st.heap, Outline(text))
        stack1 == PopStack(st.stack, lvl)
    IN  IF stack1 = <<>>
        THEN [st EXCEPT !.err = TRUE]
        ELSE [st EXCEPT !.heap = add(heap1, Last(stack1)[2], node),
                        !.stack = Append(stack1, <<lvl, node>>),
                        !.hids = Append(@, node)]

\* for li in el.find_all("li"): if txt: lst.add(Outline(txt))
RECURSIVE AddItems(_, _, _)
AddItems(heap, parent, items) ==
    IF items = <<>> THEN heap
    ELSE IF Head(items) # <<>>
         THEN AddItems(add(Alloc(heap, Outline(Head(items))), parent, Len(heap) + 1),
                       parent, Tail(items))
         ELSE AddItems(heap, parent, Tail(items))

\* one ul/ol element: lines 251-261
ListStep(st, items) ==
    IF st.stack = <<>> THEN st
    ELSE LET parent == Last(st.stack)[2]
             lst == Len(st.heap) + 1
             heap1 == AddItems(Alloc(st.heap, Outline(ListLabel)), lst, items)
         IN  IF heap1[lst].children # <<>>
             THEN [st EXCEPT !.heap = add(heap1, parent, lst)]
             ELSE [st EXCEPT !.heap = heap1]

\* for el in body.descendants: lines 242-261
RECURSIVE WalkDescendants(_, _)
WalkDescendants(st, elems) ==
    IF elems = <<>> \/ st.err THEN st
    ELSE LET el == Head(elems)
             st1 == IF el.tag = "h" THEN HeadingStep(st, el.lvl, el.text)
                    ELSE IF el.tag = "ul" THEN ListStep(st, el.items)
                    ELSE st
         IN  WalkDescendants(st1, Tail(elems))

ParaTexts(elems) == SelectSeq(elems, LAMBDA e : e.tag = "p")

\* the stray paragraphs: lines 263-269
CollectUnsorted(st, root, elems) ==
    LET unsorted == Len(st.heap) + 1
        ptxt == [i \in 1..Len(ParaTexts(elems)) |-> ParaTexts(elems)[i].text]
        heap1 == AddItems(Alloc(st.heap, Outline(Unsorted)), unsorted, ptxt)
    IN  IF heap1[unsorted].children # <<>>
        THEN [st EXCEPT !.heap = add(heap1, root, unsorted)]
        ELSE [st EXCEPT !.heap = heap1]

\* _MiniHTMLHeadingParser.__init__: the (level, text) pairs of the headings
\* whose text is not empty, lines 187-204
MiniHeadings(elems) == SelectSeq(elems, LAMBDA e : e.tag = "h" /\ e.text # <<>>)

\* _MiniHTMLHeadingParser.to_outline, lines 208-217
to_outline(headings) ==
    WalkDescendants(ExtractState(<<Outline(Document)>>, << <<0, 1>> >>), headings)

\* html_to_outline, lines 233-273; the root is object 1
html_to_outline(html, bs4) ==
    IF bs4
    THEN LET root == Outline(Or(html.docTitle, Document))
             st == WalkDescendants(ExtractState(<<root>>, << <<0, 1>> >>), html.elems)
         IN  IF st.err THEN st ELSE CollectUnsorted(st, 1, html.elems)
    ELSE to_outline(MiniHeadings(html.elems))

-----------------------------------------------------------------------------
(* Text heuristics extractor: aopmlengine.py 137-169 and 277-311 *)

PySpace == {" ", "\t", "\n", "\r", "\f"}
Capitals ==
    <<"A", "B", "C", "D", "E", "F", "G", "H", "I", "J", "K", "L", "M",
      "N", "O", "P", "Q", "R", "S", "T", "U", "V", "W", "X", "Y", "Z">>
Alphabet ==
    <<"a", "b", "c", "d", "e", "f", "g", "h", "i", "j", "k", "l", "m",
      "n", "o", "p", "q", "r", "s", "t", "u", "v", "w", "x", "y", "z">>
Upper == Range(Capitals)
Lower == Range(Alphabet)
Digits == {"1", "2"}
BulletChars == {"-", "*"}

RECURSIVE LstripChars(_, _)
LstripChars(s, cs) ==
    IF s # <<>> /\ Head(s) \in cs THEN LstripChars(Tail(s), cs) ELSE s

RECURSIVE RstripChars(_, _)
RstripChars(s, cs) ==
    IF s # <<>> /\ Last(s) \in cs THEN RstripChars(Front(s), cs) ELSE s

\* str.strip(chars), str.strip(), str.rstrip()
StripChars(s, cs) == RstripChars(LstripChars(s, cs), cs)
Strip(s) == StripChars(s, PySpace)
Rstrip(s) == RstripChars(s, PySpace)

\* _LIST_MARK = ^\s*(?:[-*...]|\d+[.)])\s+ : the length of the match at the
\* start of ln, 0 when there is none
ListMarkLen(ln) ==
    LET body == LstripChars(ln, PySpace)
        ws == Len(ln) - Len(body)
        afterDigits == LstripChars(body, Digits)
        nd == Len(body) - Len(afterDigits)
        mark == IF body # <<>> /\ Head(body) \in BulletChars THEN 1
                ELSE IF nd > 0 /\ afterDigits # <<>> /\ Head(afterDigits) \in {".", ")"}
                     THEN nd + 1
                ELSE 0
        rest == SubSeq(body, mark + 1, Len(body))
        gap == Len(rest) - Len(LstripChars(rest, PySpace))
    IN  IF mark > 0 /\ gap > 0 THEN ws + mark + gap ELSE 0

\* _TITLE_LINE = ^[\t ]*([A-Z][^a-z\n]{3,}|[#]{1,6}\s+.+)$
TitleLineMatch(ln) ==
    LET body == LstripChars(ln, {"\t", " "})
        afterHash == LstripChars(body, {"#"})
        nh == Len(body) - Len(afterHash)
    IN  \/ /\ body # <<>> /\ Head(body) \in Upper
           /\ Len(body) >= 4
           /\ \A i \in 2..Len(body) : body[i] \notin Lower \cup {"\n"}
        \/ /\ nh \in 1..6
           /\ Len(afterHash) >= 2
           /\ Head(afterHash) \in PySpace
           /\ "\n" \notin Range(afterHash)

\* "\n".join(lines)
RECURSIVE JoinLines(_)
JoinLines(lines) ==
    IF lines = <<>> THEN <<>>
    ELSE IF Len(lines) = 1 THEN Head(lines)
    ELSE Head(lines) \o <<"\n">> \o JoinLines(Tail(lines))

\* str.splitlines() of a block that has only "\n" as line break
RECURSIVE SplitLines(_, _, _)
SplitLines(s, cur, acc) ==
    IF s = <<>> THEN (IF cur = <<>> THEN acc ELSE Append(acc, cur))
    ELSE IF Head(s) = "\n" THEN SplitLines(Tail(s), <<>>, Append(acc, cur))
    ELSE SplitLines(Tail(s), Append(cur, Head(s)), acc)

\* split_paragraphs, lines 146-149, on the lines of the text: the text is
\* cut where blank lines stand (\n\s*\n+), each part stripped, empty parts
\* dropped; a paragraph is returned as one string
RECURSIVE ParaGroups(_, _, _)
ParaGroups(lines, cur, acc) ==
    IF lines = <<>> THEN (IF cur = <<>> THEN acc ELSE Append(acc, cur))
    ELSE IF Strip(Head(lines)) = <<>>
         THEN ParaGroups(Tail(lines), <<>>, IF cur = <<>> THEN acc ELSE Append(acc, cur))
         ELSE ParaGroups(Tail(lines), Append(cur, Head(lines)), acc)

\* variant of split_paragraphs that does not cut the text at blank lines
SplitParagraphsWhole(lines) ==
    IF Strip(JoinLines(lines)) = <<>> THEN <<>> ELSE <<Strip(JoinLines(lines))>>

split_paragraphs(lines) ==
    LET groups == ParaGroups(lines, <<>>, <<>>)
    IN  [i \in 1..Len(groups) |-> Strip(JoinLines(groups[i]))]

\* re.split(r"[;...]|\s\-\s", tail)
RECURSIVE SplitItems(_, _, _)
SplitItems(s, cur, acc) ==
    IF s = <<>> THEN Append(acc, cur)
    ELSE IF Head(s) = ";" THEN SplitItems(Tail(s), <<>>, Append(acc, cur))
    ELSE IF Len(s) >= 3 /\ s[1] \in PySpace /\ s[2] = "-" /\ s[3] \in PySpace
         THEN SplitItems(SubSeq(s, 4, Len(s)), <<>>, Append(acc, cur))
    ELSE SplitItems(Tail(s), Append(cur, Head(s)), acc)

ItemMaxLen == 240
HeadTextLen == 60
TitleScanLines == 8

NoBullets == [bullets |-> <<>>, isNone |-> TRUE, remainder |-> <<>>]

\* bulletize_lines, lines 152-169
bulletize_lines(block) ==
    LET lines == SelectSeq([i \in 1..Len(SplitLines(block, <<>>, <<>>)) |->
                               Rstrip(SplitLines(block, <<>>, <<>>)[i])],
                           LAMBDA ln : Strip(ln) # <<>>)
        marked == SelectSeq(lines, LAMBDA ln : ListMarkLen(ln) > 0)
        colon == IF ":" \in Range(block)
                 THEN CHOOSE i \in 1..Len(block) :
                          block[i] = ":" /\ \A j \in 1..(i - 1) : block[j] # ":"
                 ELSE 0
        head == SubSeq(block, 1, colon - 1)
        tail == SubSeq(block, colon + 1, Len(block))
        parts == SelectSeq(SplitItems(tail, <<>>, <<>>), LAMBDA it : Strip(it) # <<>>)
        items == [i \in 1..Len(parts) |-> StripChars(parts[i], {" ", "\t", "-"})]
    IN  IF lines = <<>> THEN NoBullets
        ELSE IF Len(marked) >= (IF Len(lines) \div 2 > 2 THEN Len(lines) \div 2 ELSE 2)
        THEN [bullets |-> [i \in 1..Len(marked) |->
                              Strip(SubSeq(marked[i], ListMarkLen(marked[i]) + 1,
                                           Len(marked[i])))],
              isNone |-> FALSE, remainder |-> <<>>]
        ELSE IF colon > 0 /\ (";" \in Range(block) \/ "," \in Range(block))
                /\ Len(items) >= 2 /\ \A i \in 1..Len(items) : Len(items[i]) <= ItemMaxLen
        THEN [bullets |-> items, isNone |-> FALSE, remainder |-> Strip(head)]
        ELSE [bullets |-> <<>>, isNone |-> TRUE, remainder |-> block]

\* variant of the title loop that runs over all the lines, not lines[:8]
RECURSIVE InferTitleNoLimit(_, _)
InferTitleNoLimit(lines, i) ==
    IF i >= Len(lines)
    THEN [title |-> <<>>, lines |-> lines]
    ELSE LET ln == lines[i + 1]
             nxt == IF i + 1 < Len(lines) THEN Strip(lines[i + 2]) ELSE <<>>
             half == Len(Strip(ln)) \div 2
         IN  IF StartsWith(Strip(ln), 1, <<"#", " ">>)
             THEN [title |-> Strip(StripChars(ln, {"#", " "})),
                   lines |-> SubSeq(lines, i + 2, Len(lines))]
             ELSE IF /\ i + 1 < Len(lines)
                     /\ Range(nxt) \in {{"="}, {"-"}}
                     /\ Len(nxt) >= (IF half > 3 THEN half ELSE 3)
             THEN [title |-> Strip(ln), lines |-> SubSeq(lines, i + 3, Len(lines))]
             ELSE IF TitleLineMatch(ln)
             THEN [title |-> Strip(StripChars(ln, {"#", " "})),
                   lines |-> SubSeq(lines, i + 2, Len(lines))]
             ELSE InferTitleNoLimit(lines, i + 1)

\* the title loop of text_to_outline, lines 281-293, from index i (0-based
\* as in the code) over lines[:8]: the title found and the lines kept
RECURSIVE InferTitle(_, _)
InferTitle(lines, i) ==
    IF i >= Len(lines) \/ i >= TitleScanLines
    THEN [title |-> <<>>, lines |-> lines]
    ELSE LET ln == lines[i + 1]
             nxt == IF i + 1 < Len(lines) THEN Strip(lines[i + 2]) ELSE <<>>
             half == Len(Strip(ln)) \div 2
         IN  IF StartsWith(Strip(ln), 1, <<"#", " ">>)
             THEN [title |-> Strip(StripChars(ln, {"#", " "})),
                   lines |-> SubSeq(lines, i + 2, Len(lines))]
             ELSE IF /\ i + 1 < Len(lines)
                     /\ Range(nxt) \in {{"="}, {"-"}}
                     /\ Len(nxt) >= (IF half > 3 THEN half ELSE 3)
             THEN [title |-> Strip(ln), lines |-> SubSeq(lines, i + 3, Len(lines))]
             ELSE IF TitleLineMatch(ln)
             THEN [title |-> Strip(StripChars(ln, {"#", " "})),
                   lines |-> SubSeq(lines, i + 2, Len(lines))]
             ELSE InferTitle(lines, i + 1)

\* variant of the bullet loop that puts each new leaf in front
RECURSIVE AddAllFront(_, _, _)
AddAllFront(heap, parent, texts) ==
    IF texts = <<>> THEN heap
    ELSE AddAllFront([Alloc(heap, Outline(Head(texts))) EXCEPT
                         ![parent].children = <<Len(heap) + 1>> \o @],
                     parent, Tail(texts))

\* for b in bullets: section.add(Outline(b))
RECURSIVE AddAll(_, _, _)
AddAll(heap, parent, texts) ==
    IF texts = <<>> THEN heap
    ELSE AddAll(add(Alloc(heap, Outline(Head(texts))), parent, Len(heap) + 1),
                parent, Tail(texts))

\* the paragraph loop of text_to_outline, lines 300-310
RECURSIVE AddParas(_, _, _)
AddParas(heap, root, paras) ==
    IF paras = <<>> THEN heap
    ELSE LET para == Head(paras)
             b == bulletize_lines(para)
             first == Head(SplitLines(para, <<>>, <<>>) \o << <<>> >>)
             head_text == IF b.remainder # <<>> THEN b.remainder
                          ELSE SubSeq(first, 1, IF Len(first) < HeadTextLen
                                                THEN Len(first) ELSE HeadTextLen)
             node == Len(heap) + 1
         IN  IF ~b.isNone
             THEN AddParas(add(AddAll(Alloc(heap, Outline(Or(head_text, ListLabel))),
                                      node, b.bullets),
                               root, node),
                           root, Tail(paras))
             ELSE AddParas(add(Alloc(heap, Outline(para)), root, node), root, Tail(paras))

\* text_to_outline, lines 277-311, on text.splitlines(); the root is object 1
text_to_outline(textLines, assumed_title) ==
    LET lines == [i \in 1..Len(textLines) |-> Rstrip(textLines[i])]
        inf == InferTitle(lines, 0)
        root == Outline(Or(inf.title, Or(assumed_title, Document)))
    IN  [heap |-> AddParas(<<root>>, 1, split_paragraphs(inf.lines)),
         stack |-> <<>>, hids |-> <<>>, err |-> FALSE]

\* the lines text payloads are made of
LineCatalog ==
    {<<>>,
     <<"#", " ", "T">>,
     <<"=", "=", "=">>,
     <<"A", "B", "C", "D">>,
     <<"-", " ", "a">>,
     <<"x">>,
     <<"k", ":", " ", "a", ";", " ", "b">>,
     <<"k", ":", " ", "-", ";", " ", "b">>}

TextPayloads ==
    {[kind |-> "text", elems |-> <<>>, docTitle |-> <<>>, lines |-> ls] :
        ls \in SeqsUpTo(LineCatalog, MaxLines)}

-----------------------------------------------------------------------------
(* Document assembler: aopmlengine.py 374-412 *)

\* OPMLDocument with its outlines (references into the heap)
OPMLDocument(t, outlines, heap) == [title |-> t, outlines |-> outlines, heap |-> heap]

\* variant of the assembler without the placeholder of lines 390-391
AssembleNoPlaceholder(heap, root, hint, cfgT) ==
    OPMLDocument(Or(heap[root].text, Or(cfgT, Or(hint, Document))),
                 heap[root].children, heap)

\* the body shared by build_opml_from_html (382-393) and
\* build_opml_from_text (402-412); root is the extractor's root node
Assemble(heap, root, hint, cfgT) ==
    LET final_title == Or(heap[root].text, Or(cfgT, Or(hint, Document)))
    IN  IF heap[root].children # <<>>
        THEN OPMLDocument(final_title, heap[root].children, heap)
        ELSE OPMLDocument(final_title, <<Len(heap) + 1>>,
                          Alloc(heap, Outline(Or(heap[root].text, final_title))))

build_opml_from_html(hint, html, cfgT, bs4) ==
    Assemble(html_to_outline(html, bs4).heap, 1, hint, cfgT)

-----------------------------------------------------------------------------
(* Sanitizing serializer: aopmlengine.py 90-131 *)

\* xml.sax.saxutils.escape with no extra entities: & first, then > and <
EscapeChar(c) ==
    IF c = "&" THEN <<"&", "a", "m", "p", ";">>
    ELSE IF c = ">" THEN <<"&", "g", "t", ";">>
    ELSE IF c = "<" THEN <<"&", "l", "t", ";">>
    ELSE <<c>>

\* every character replaced in place (a text without any of the three
\* characters is returned as it is; else it is halved at each step, which
\* keeps the evaluation shallow on long snippets)
RECURSIVE xml_escape(_)
xml_escape(data) ==
    IF \A i \in 1..Len(data) : data[i] \notin {"&", ">", "<"} THEN data
    ELSE IF Len(data) = 1 THEN EscapeChar(data[1])
    ELSE xml_escape(SubSeq(data, 1, Len(data) \div 2))
         \o xml_escape(SubSeq(data, Len(data) \div 2 + 1, Len(data)))

RECURSIVE Spaces(_)
Spaces(n) == IF n <= 0 THEN <<>> ELSE <<" ">> \o Spaces(n - 1)

TextKey == <<"t", "e", "x", "t">>
UrlKey == <<"u", "r", "l">>

\* dict.update on an insertion-ordered dict kept as a sequence of <<k, v>>
RECURSIVE DictUpdate(_, _)
DictUpdate(d, more) ==
    IF more = <<>> THEN d
    ELSE LET k == Head(more)[1]
             v == Head(more)[2]
             at == {i \in 1..Len(d) : d[i][1] = k}
         IN  DictUpdate(IF at = {} THEN Append(d, <<k, v>>)
                        ELSE [i \in 1..Len(d) |-> IF i \in at THEN <<k, v>> ELSE d[i]],
                        Tail(more))

\* " ".join(f"{k}=\"{xml_escape(v)}\"" for k, v in attrs.items())
RECURSIVE AttrStr(_)
AttrStr(attrs) ==
    IF attrs = <<>> THEN <<>>
    ELSE Head(attrs)[1] \o <<"=", "\"">> \o xml_escape(Head(attrs)[2]) \o <<"\"">>
         \o (IF Len(attrs) > 1 THEN <<" ">> ELSE <<>>) \o AttrStr(Tail(attrs))

OpenTag == <<"<", "o", "u", "t", "l", "i", "n", "e">>
CloseTag == <<"<", "/", "o", "u", "t", "l", "i", "n", "e", ">">>

\* Outline.to_xml, lines 90-102
RECURSIVE to_xml(_, _, _, _)
RECURSIVE ChildrenXml(_, _, _, _)
to_xml(heap, self, indent, level) ==
    LET pad == Spaces(indent * level)
        attrs == DictUpdate(<< <<TextKey, heap[self].text>> >>, heap[self].attrs)
        attr_str == AttrStr(attrs)
    IN  IF heap[self].children = <<>>
        THEN pad \o OpenTag \o <<" ">> \o attr_str \o <<"/", ">", "\n">>
        ELSE pad \o OpenTag \o <<" ">> \o attr_str \o <<">", "\n">>
             \o ChildrenXml(heap, heap[self].children, indent, level + 1)
             \o pad \o CloseTag \o <<"\n">>

ChildrenXml(heap, cs, indent, level) ==
    IF cs = <<>> THEN <<>>
    ELSE to_xml(heap, Head(cs), indent, level) \o ChildrenXml(heap, Tail(cs), indent, level)

\* the <title> and <ownerName> elements of OPMLDocument.to_xml, lines 117-121
HeadField(name, value) ==
    <<"<">> \o name \o <<">">> \o xml_escape(value) \o <<"<", "/">> \o name \o <<">">>

TitleTag == <<"t", "i", "t", "l", "e">>
OwnerTag == <<"o", "w", "n", "e", "r", "N", "a", "m", "e">>

\* the fields written for a document, one entry per head.write call
HeadXml(d) ==
    <<HeadField(TitleTag, d.title)>>
    \o (IF d.owner_name # <<>> THEN <<HeadField(OwnerTag, d.owner_name)>> ELSE <<>>)

-----------------------------------------------------------------------------
(* The reader: xml.etree.ElementTree as used by load_opml, and _from_el,   *)
(* opml_extras_v3.py 13-48                                                 *)

\* characters outside the legal XML 1.0 ranges, among those of the model
XmlIllegal(c) == c \in {"\f"}

\* the predefined entities of XML
Entities ==
    {[name |-> <<"a", "m", "p", ";">>, ch |-> "&"],
     [name |-> <<"l", "t", ";">>, ch |-> "<"],
     [name |-> <<"g", "t", ";">>, ch |-> ">"],
     [name |-> <<"q", "u", "o", "t", ";">>, ch |-> "\""],
     [name |-> <<"a", "p", "o", "s", ";">>, ch |-> "'"]}

XmlSpace == {" ", "\t", "\n", "\r"}

ParseFail == [ok |-> FALSE, val |-> <<>>, next |-> 0]

\* an attribute value from the character after its opening quote: it ends at
\* the first double quote; < and illegal characters are errors, & must
\* start an entity, white space is normalized to a space
RECURSIVE ParseAttValue(_, _, _)
ParseAttValue(s, i, acc) ==
    IF i > Len(s) THEN ParseFail
    ELSE IF s[i] = "\"" THEN [ok |-> TRUE, val |-> acc, next |-> i + 1]
    ELSE IF s[i] = "<" \/ XmlIllegal(s[i]) THEN ParseFail
    ELSE IF s[i] = "&"
         THEN LET E == {e \in Entities : StartsWith(s, i + 1, e.name)}
              IN  IF E = {} THEN ParseFail
                  ELSE LET e == CHOOSE x \in E : TRUE
                       IN  ParseAttValue(s, i + 1 + Len(e.name), Append(acc, e.ch))
    ELSE IF s[i] \in XmlSpace THEN ParseAttValue(s, i + 1, Append(acc, " "))
    ELSE ParseAttValue(s, i + 1, Append(acc, s[i]))

RECURSIVE SkipSpace(_, _)
SkipSpace(s, i) == IF i <= Len(s) /\ s[i] \in XmlSpace THEN SkipSpace(s, i + 1) ELSE i

NameChars == {"a", "e", "l", "r", "t", "u", "x"}

RECURSIVE NameEnd(_, _)
NameEnd(s, i) == IF i <= Len(s) /\ s[i] \in NameChars THEN NameEnd(s, i + 1) ELSE i

\* the attributes of a start tag from position i, up to its > or />;
\* an attribute name may not occur twice
RECURSIVE ParseAttrs(_, _, _)
ParseAttrs(s, i, attrs) ==
    LET j == SkipSpace(s, i)
    IN  IF StartsWith(s, j, <<"/", ">">>) \/ StartsWith(s, j, <<">">>)
        THEN [ok |-> TRUE, val |-> attrs, next |-> j]
        ELSE LET e == NameEnd(s, j)
             IN  IF j = i \/ e = j \/ ~StartsWith(s, e, <<"=", "\"">>)
                    \/ \E a \in Range(attrs) : a[1] = SubSeq(s, j, e - 1)
                 THEN ParseFail
                 ELSE LET v == ParseAttValue(s, e + 2, <<>>)
                      IN  IF ~v.ok THEN ParseFail
                          ELSE ParseAttrs(s, v.next,
                                          Append(attrs, <<SubSeq(s, j, e - 1), v.val>>))

\* every start tag of the text, in order: the attributes of each, or a
\* failure if one of them is not well-formed
RECURSIVE ParseTags(_, _, _)
ParseTags(s, i, tags) ==
    LET j == SkipSpace(s, i)
    IN  IF j > Len(s) THEN [ok |-> TRUE, val |-> tags, next |-> j]
        ELSE IF StartsWith(s, j, CloseTag) THEN ParseTags(s, j + Len(CloseTag), tags)
        ELSE IF StartsWith(s, j, OpenTag)
             THEN LET a == ParseAttrs(s, j + Len(OpenTag), <<>>)
                  IN  IF ~a.ok THEN ParseFail
                      ELSE ParseTags(s, IF s[a.next] = "/" THEN a.next + 2 ELSE a.next + 1,
                                     Append(tags, a.val))
        ELSE ParseFail

\* the character data of an element from position i up to the next <
RECURSIVE ParseContent(_, _, _)
ParseContent(s, i, acc) ==
    IF i > Len(s) THEN ParseFail
    ELSE IF s[i] = "<" THEN [ok |-> TRUE, val |-> acc, next |-> i]
    ELSE IF XmlIllegal(s[i]) THEN ParseFail
    ELSE IF s[i] = "&"
         THEN LET E == {e \in Entities : StartsWith(s, i + 1, e.name)}
              IN  IF E = {} THEN ParseFail
                  ELSE LET e == CHOOSE x \in E : TRUE
                       IN  ParseContent(s, i + 1 + Len(e.name), Append(acc, e.ch))
    ELSE ParseContent(s, i + 1, Append(acc, s[i]))

\* <name>character data</name>
ParseField(name, s) ==
    IF ~StartsWith(s, 1, <<"<">> \o name \o <<">">>) THEN ParseFail
    ELSE LET c == ParseContent(s, Len(name) + 3, <<>>)
         IN  IF c.ok /\ SubSeq(s, c.next, Len(s)) = <<"<", "/">> \o name \o <<">">>
             THEN c ELSE ParseFail

SafeMaxLen == 240
SafeMaxLenAttr == 4096
Ellipsis == "..."     \* stands for the one character U+2026
Untitled == <<"(", "u", "n", "t", "i", "t", "l", "e", "d", ")">>

\* s.translate(_XML_BAD): drops U+0000-U+001F except tab, LF and CR
Translate(s) == SelectSeq(s, LAMBDA c : c \notin {"\f"})

\* " ".join(s.split()): trims and collapses runs of white space
RECURSIVE JoinSplit(_, _, _)
JoinSplit(s, acc, gap) ==
    IF s = <<>> THEN acc
    ELSE IF Head(s) \in XmlSpace \cup {"\f"} THEN JoinSplit(Tail(s), acc, TRUE)
    ELSE JoinSplit(Tail(s),
                   IF gap /\ acc # <<>> THEN acc \o <<" ", Head(s)>> ELSE Append(acc, Head(s)),
                   FALSE)

\* _safe, opml_extras_v3.py 19-26
safe(s, max_len) ==
    LET t == JoinSplit(Translate(s), <<>>, FALSE)
    IN  IF Len(t) > max_len THEN Append(SubSeq(t, 1, max_len - 1), Ellipsis) ELSE t

DictGet(d, k, default) ==
    IF \E i \in 1..Len(d) : d[i][1] = k
    THEN d[CHOOSE i \in 1..Len(d) : d[i][1] = k][2]
    ELSE default

\* _from_el, lines 36-41, on the attributes the parser read
from_el(attrib) ==
    [ok |-> TRUE,
     text |-> safe(DictGet(attrib, TextKey, Untitled), SafeMaxLen),
     attrs |-> [i \in 1..Len(attrib) |-> <<attrib[i][1], safe(attrib[i][2], SafeMaxLenAttr)>>]]

\* load_opml on the serialized tree: ET.parse raises on text that is not
\* well-formed, else the root element goes through _from_el
load_opml(s) ==
    LET t == ParseTags(s, 1, <<>>)
    IN  IF t.ok /\ t.val # <<>> THEN from_el(t.val[1])
        ELSE [ok |-> FALSE, text |-> <<>>, attrs |-> <<>>]

-----------------------------------------------------------------------------
(* Serializing and reading back *)

\* the characters labels are made of: an ordinary one, the five XML
\* metacharacters, a separator, white space, and a control character that
\* XML 1.0 does not allow
Chars == {"a", "&", "<", ">", "\"", "'", ";", " ", "\n", "\f"}

\* longer labels: an already escaped entity, a quoted word
Samples == {<<"&", "a", "m", "p", ";">>, <<"a", "\"", "a", "\"">>}

XmlTexts == SeqsUpTo(Chars, MaxLen) \cup Samples
AttrVals == {<<"a">>, <<"\"">>, <<"&", "<">>, <<"\f">>}

\* attribute mappings that hold the key text themselves
TextAttrs ==
    {<< <<TextKey, <<"b">>>> >>,
     << <<UrlKey, <<"a">>>>, <<TextKey, <<"b">>>> >>,
     << <<UrlKey, <<"a">>>>, <<TextKey, <<"a">>>> >>}

XmlTrees ==
    {<<[text |-> t, children |-> <<>>, attrs |-> a]>> :
        t \in XmlTexts, a \in {<<>>} \cup {<< <<UrlKey, v>> >> : v \in AttrVals}}
    \cup
    {<<[text |-> <<"a">>, children |-> <<>>, attrs |-> a]>> : a \in TextAttrs}
    \cup
    {<<[text |-> t, children |-> <<2>>, attrs |-> <<>>], Outline(c)>> :
        t \in XmlTexts, c \in AttrVals}

XmlDocs ==
    {[title |-> t, owner_name |-> o] :
        t \in {<<"a">>, <<"<", "&", ">">>, <<"\"", "'">>}, o \in {<<>>, <<"&">>}}

InitXml ==
    /\ xpc = "start"
    /\ xheap \in XmlTrees
    /\ xdoc \in XmlDocs
    /\ xml = <<>>
    /\ xhead = <<>>
    /\ parsed = NoParse
    /\ haveBs4 = FALSE
    /\ BuildIdle
    /\ ExportIdle
    /\ SideIdle

\* doc.to_xml(): the head fields, and each root through Outline.to_xml
\* with indent 2 at level 1
Serialize ==
    /\ xpc = "start"
    /\ xml' = to_xml(xheap, 1, 2, 1)
    /\ xhead' = HeadXml(xdoc)
    /\ xpc' = "serialized"
    /\ UNCHANGED <<xheap, xdoc, parsed>>
    /\ UNCHANGED <<buildVars, exportVars, sideVars>>

\* load_opml on the text written
ReadBack ==
    /\ xpc = "serialized"
    /\ parsed' = load_opml(xml)
    /\ xpc' = "parsed"
    /\ UNCHANGED <<xheap, xdoc, xml, xhead>>
    /\ UNCHANGED <<buildVars, exportVars, sideVars>>

NextXml == Serialize \/ ReadBack

SpecXml == InitXml /\ [][NextXml]_vars

-----------------------------------------------------------------------------
(* Payload detection: aopmlengine.py 137-143 and 365-367 *)

\* the text of a payload of markup: a complete document when it has a
\* <title>, else a fragment of body markup
Render(p) ==
    LET Tag(name) == <<"<">> \o name \o <<">">>
        EndTag(name) == <<"<", "/">> \o name \o <<">">>
        RECURSIVE Concat(_)
        Concat(ss) == IF ss = <<>> THEN <<>> ELSE Head(ss) \o Concat(Tail(ss))
        H(e) == <<"h">> \o Str(e.lvl)
        RenderElem(e) ==
            IF e.tag = "h" THEN Tag(H(e)) \o e.text \o EndTag(H(e))
            ELSE IF e.tag = "ul"
            THEN Tag(<<"u", "l">>)
                 \o Concat([i \in 1..Len(e.items) |->
                               Tag(<<"l", "i">>) \o e.items[i] \o EndTag(<<"l", "i">>)])
                 \o EndTag(<<"u", "l">>)
            ELSE Tag(<<"p">>) \o e.text \o EndTag(<<"p">>)
        body == Concat([i \in 1..Len(p.elems) |-> RenderElem(p.elems[i])])
    IN  IF p.docTitle = <<>> THEN body
        ELSE Tag(<<"h", "t", "m", "l">>) \o Tag(<<"h", "e", "a", "d">>)
             \o Tag(TitleTag) \o p.docTitle \o EndTag(TitleTag)
             \o EndTag(<<"h", "e", "a", "d">>) \o Tag(<<"b", "o", "d", "y">>)
             \o body
             \o EndTag(<<"b", "o", "d", "y">>) \o EndTag(<<"h", "t", "m", "l">>)

\* text.splitlines() of a payload
TextLines(p) ==
    IF p.kind = "text" THEN p.lines
    ELSE IF Render(p) = <<>> THEN <<>> ELSE <<Render(p)>>

\* what the markup parser finds in a payload; the plain texts of the model
\* hold no heading, list, paragraph or title element
AsMarkup(p) == IF p.kind = "html" THEN p ELSE [p EXCEPT !.kind = "html", !.lines = <<>>]

\* str.lower()
lower(s) ==
    [i \in 1..Len(s) |->
        IF s[i] \in Upper THEN Alphabet[CHOOSE k \in 1..Len(Capitals) : Capitals[k] = s[i]]
        ELSE s[i]]

\* is_probably_html, lines 142-143, with
\* _HTML_SIGNS = <\s*(!doctype|html|head|body|h[1-6]|p|div|ul|ol|li)\b, re.I
is_probably_html(text) ==
    LET HtmlSigns ==
            {<<"!", "d", "o", "c", "t", "y", "p", "e">>, <<"h", "t", "m", "l">>,
             <<"h", "e", "a", "d">>, <<"b", "o", "d", "y">>, <<"p">>, <<"d", "i", "v">>,
             <<"u", "l">>, <<"o", "l">>, <<"l", "i">>}
            \cup {<<"h", d>> : d \in {"1", "2", "3", "4", "5", "6"}}
        WordChars == Upper \cup Lower \cup Range(DigitChar) \cup {"0", "_"}
    IN  \E i \in 1..Len(text), j \in 1..Len(text), n \in HtmlSigns :
            /\ text[i] = "<"
            /\ i < j
            /\ \A k \in (i + 1)..(j - 1) : text[k] \in PySpace
            /\ StartsWith(lower(text), j, n)
            /\ j + Len(n) <= Len(text) => text[j + Len(n)] \notin WordChars

\* the test of convert_payload_to_opml, lines 366-367
LooksLikeMarkup(text) ==
    LET low == lower(text)
        ConvertSigns ==
            {<<"<", "h", "t", "m", "l">>, <<"<", "b", "o", "d", "y">>,
             <<"<", "d", "i", "v">>, <<"<", "p">>}
    IN  \E w \in ConvertSigns, i \in 1..Len(low) : StartsWith(low, i, w)

-----------------------------------------------------------------------------
(* Page outline export: ai_navigator.py 385-414 and 738-755 *)

OutlineEnd ==
    <<"<", "/", "o", "u", "t", "l", "i", "n", "e", ">">>

UntitledPage == <<"U", "n", "t", "i", "t", "l", "e", "d">>

\* f'<outline text="{text}">'
OutlineStart(text) ==
    <<"<", "o", "u", "t", "l", "i", "n", "e", " ", "t", "e", "x", "t",
      "=", "\"">>
    \o text \o <<"\"", ">">>

\* while stack and level <= stack[-1]: out.append("</outline>"); stack.pop()
RECURSIVE CloseOutlines(_, _)
CloseOutlines(st, level) ==
    IF st.stack # <<>> /\ level <= Last(st.stack)
    THEN CloseOutlines([out |-> Append(st.out, OutlineEnd), stack |-> Front(st.stack)],
                       level)
    ELSE st

\* for level, text in nodes: lines 403-408
RECURSIVE OpmlNodes(_, _)
OpmlNodes(st, nodes) ==
    IF nodes = <<>> THEN st
    ELSE LET st1 == CloseOutlines(st, Head(nodes).lvl)
         IN  OpmlNodes([out |-> Append(st1.out, OutlineStart(Head(nodes).text)),
                        stack |-> Append(st1.stack, Head(nodes).lvl)],
                       Tail(nodes))

\* while len(stack) > 1: out.append("</outline>"); stack.pop()
RECURSIVE CloseRest(_, _)
CloseRest(out, stack) ==
    IF Len(stack) > 1 THEN CloseRest(Append(out, OutlineEnd), Front(stack)) ELSE out

\* _html_to_opml: the lines of the text returned, and the stack as the
\* loop over the headings left it
html_to_opml(html, t) ==
    LET XmlDecl ==
            <<"<", "?", "x", "m", "l", " ", "v", "e", "r", "s", "i", "o", "n",
              "=", "\"", "1", ".", "0", "\"", "?", ">">>
        OpmlOpen ==
            <<"<", "o", "p", "m", "l", " ", "v", "e", "r", "s", "i", "o", "n",
              "=", "\"", "2", ".", "0", "\"", ">", "<", "h", "e", "a", "d", ">">>
        BodyOpen ==
            <<"<", "/", "h", "e", "a", "d", ">", "<", "b", "o", "d", "y", ">">>
        OpmlClose ==
            <<"<", "/", "b", "o", "d", "y", ">", "<", "/", "o", "p", "m", "l",
              ">">>
        doc_title == Or(Or(t, html.docTitle), UntitledPage)
        nodes == SelectSeq(html.elems, LAMBDA e : e.tag = "h" /\ e.text # <<>>)
        head == <<XmlDecl, OpmlOpen,
                  <<"<">> \o TitleTag \o <<">">> \o doc_title
                      \o <<"<", "/">> \o TitleTag \o <<">">>,
                  BodyOpen>>
        st == OpmlNodes([out |-> head, stack |-> <<0>>], nodes)
    IN  [out |-> Append(CloseRest(st.out, st.stack), OpmlClose), stack |-> st.stack]

-----------------------------------------------------------------------------
(* Single-document conversion *)

TitleHints == {<<>>, <<"T">>}
CfgTitles == {<<>>, <<"C">>}

\* <h1>A</h1><h2>B</h2><h2>C</h2><h3>D</h3>
HeadingScenario ==
    [kind |-> "html",
     elems |-> <<Heading(1, <<"A">>), Heading(2, <<"B">>),
                 Heading(2, <<"C">>), Heading(3, <<"D">>)>>,
     docTitle |-> <<>>, lines |-> <<>>]

InitBuild ==
    /\ pc = "start"
    /\ payload \in HtmlPayloads \cup TextPayloads \cup {HeadingScenario}
    /\ haveBs4 \in BOOLEAN
    /\ title \in TitleHints
    /\ cfgTitle \in CfgTitles
    /\ outline = NoOutline
    /\ doc = NoDoc
    /\ opml = NoOpml
    /\ entry = "direct"
    /\ route = payload.kind
    /\ XmlIdle
    /\ ExportIdle
    /\ SideIdle

\* outline = html_to_outline(html)
ExtractHtml ==
    /\ pc = "start"
    /\ route = "html"
    /\ outline' = html_to_outline(AsMarkup(payload), haveBs4)
    /\ pc' = "extracted"
    /\ UNCHANGED <<payload, haveBs4, title, cfgTitle, doc, entry, route, opml>>
    /\ UNCHANGED <<xmlVars, exportVars, sideVars>>

\* the rest of build_opml_from_html
BuildHtml ==
    /\ pc = "extracted"
    /\ route = "html"
    /\ ~outline.err
    /\ doc' = Assemble(outline.heap, 1, title, cfgTitle)
    /\ pc' = "built"
    /\ UNCHANGED <<payload, haveBs4, title, cfgTitle, outline, entry, route, opml>>
    /\ UNCHANGED <<xmlVars, exportVars, sideVars>>

\* outline = text_to_outline(text, assumed_title=cfg.title)
ExtractText ==
    /\ pc = "start"
    /\ route = "text"
    /\ outline' = text_to_outline(TextLines(payload), cfgTitle)
    /\ pc' = "extracted"
    /\ UNCHANGED <<payload, haveBs4, title, cfgTitle, doc, entry, route, opml>>
    /\ UNCHANGED <<xmlVars, exportVars, sideVars>>

\* the rest of build_opml_from_text
BuildText ==
    /\ pc = "extracted"
    /\ route = "text"
    /\ doc' = Assemble(outline.heap, 1, title, cfgTitle)
    /\ pc' = "built"
    /\ UNCHANGED <<payload, haveBs4, title, cfgTitle, outline, entry, route, opml>>
    /\ UNCHANGED <<xmlVars, exportVars, sideVars>>

\* _export_outline_opml: the outline of the page shown, from its markup
\* and the title of the view
ExportOutlineOpml ==
    /\ pc = "start"
    /\ entry = "direct"
    /\ payload.kind = "html"
    /\ opml' = html_to_opml(payload, title)
    /\ pc' = "saved"
    /\ UNCHANGED <<payload, haveBs4, title, cfgTitle, outline, doc, entry, route>>
    /\ UNCHANGED <<xmlVars, exportVars, sideVars>>

NextBuild == ExtractHtml \/ BuildHtml \/ ExtractText \/ BuildText \/ ExportOutlineOpml

SpecBuild == InitBuild /\ [][NextBuild]_vars

\* the payloads handed to the detecting entry points: fragments and
\* complete documents of at most one element, and short plain texts
RoutePayloads ==
    {[kind |-> "html", elems |-> es, docTitle |-> dt, lines |-> <<>>] :
        es \in SeqsUpTo(Elems, 1), dt \in DocTitles}
    \cup {[kind |-> "text", elems |-> <<>>, docTitle |-> <<>>, lines |-> ls] :
        ls \in SeqsUpTo({<<"x">>, <<"#", " ", "T">>, <<"<", "p", "r", "e", ">">>}, 1)}

InitRoute ==
    /\ pc = "detect"
    /\ payload \in RoutePayloads
    /\ haveBs4 \in BOOLEAN
    /\ title \in TitleHints
    /\ cfgTitle \in CfgTitles
    /\ outline = NoOutline
    /\ doc = NoDoc
    /\ opml = NoOpml
    /\ entry = "none"
    /\ route = "none"
    /\ XmlIdle
    /\ ExportIdle
    /\ SideIdle

\* convert_payload_to_opml, lines 365-370: the choice of the builder
DetectConvert ==
    /\ pc = "detect"
    /\ entry' = "convert"
    /\ route' = IF LooksLikeMarkup(JoinLines(TextLines(payload))) THEN "html" ELSE "text"
    /\ pc' = "start"
    /\ UNCHANGED <<payload, haveBs4, title, cfgTitle, outline, doc, opml>>
    /\ UNCHANGED <<xmlVars, exportVars, sideVars>>

\* build_opml_from_file, lines 415-424: the choice of the builder; the
\* title hint is the path of the file read
DetectFile ==
    /\ pc = "detect"
    /\ title # <<>>
    /\ entry' = "file"
    /\ route' = IF is_probably_html(JoinLines(TextLines(payload))) THEN "html" ELSE "text"
    /\ pc' = "start"
    /\ UNCHANGED <<payload, haveBs4, title, cfgTitle, outline, doc, opml>>
    /\ UNCHANGED <<xmlVars, exportVars, sideVars>>

NextRoute ==
    \/ DetectConvert
    \/ DetectFile
    \/ ExtractHtml
    \/ BuildHtml
    \/ ExtractText
    \/ BuildText

SpecRoute == InitRoute /\ [][NextRoute]_vars

-----------------------------------------------------------------------------
(* Plain-text conversion on longer texts *)

\* "# Title\n\nitem one\n- a\n- b\n- c\n"
TextScenario ==
    [kind |-> "text", elems |-> <<>>, docTitle |-> <<>>,
     lines |-> << <<"#", " ", "T", "i", "t", "l", "e">>, <<>>,
                  <<"i", "t", "e", "m", " ", "o", "n", "e">>,
                  <<"-", " ", "a">>, <<"-", " ", "b">>, <<"-", " ", "c">> >>]

\* the texts converted: texts of up to MaxTextLines lines, made of plain
\* lines "x" and at up to two places an ATX title, an ALL-CAPS line, an
\* underline or a blank line; single paragraphs of up to MaxParaLines lines,
\* with and without list markers; the scenario
TextCases ==
    LET special == {<<"x">>, <<"#", " ", "T">>, <<"A", "B", "C", "D">>,
                    <<"=", "=", "=">>, <<>>}
        TitleTexts ==
            UNION {{[i \in 1..n |-> IF i = a THEN s ELSE IF i = b THEN t ELSE <<"x">>] :
                       a \in 1..n, b \in 1..n, s \in special, t \in special} :
                   n \in 0..MaxTextLines}
        ParaLines ==
            UNION {[1..n -> {<<"-", " ", "a">>, <<"*", " ", "b">>, <<"x">>}] :
                   n \in 1..MaxParaLines}
    IN  {[kind |-> "text", elems |-> <<>>, docTitle |-> <<>>, lines |-> ls] :
            ls \in TitleTexts \cup ParaLines}
        \cup {TextScenario}

InitText ==
    /\ pc = "start"
    /\ payload \in TextCases
    /\ haveBs4 = FALSE
    /\ title \in TitleHints
    /\ cfgTitle \in CfgTitles
    /\ outline = NoOutline
    /\ doc = NoDoc
    /\ opml = NoOpml
    /\ entry = "direct"
    /\ route = "text"
    /\ XmlIdle
    /\ ExportIdle
    /\ SideIdle

NextText == ExtractText \/ BuildText

SpecText == InitText /\ [][NextText]_vars

-----------------------------------------------------------------------------
(* Archive bridge: aopmlengine.py 429-505, navigator_rpc.py 111-129 *)

SnapshotPrefix == <<"S", "n", "a", "p", "s", "h", "o", "t", " ">>
SnippetPrefix == <<"S", "n", "i", "p", "p", "e", "t", ":", " ">>
SnippetLen == 200
CapturedAtKey == <<"c", "a", "p", "t", "u", "r", "e", "d", "_", "a", "t">>
LocalIdKey == <<"_", "l", "o", "c", "a", "l", "_", "i", "d">>

\* the objects of heap h moved behind n other objects
Relocate(h, n) ==
    [i \in 1..Len(h) |->
        [h[i] EXCEPT !.children = [j \in 1..Len(h[i].children) |-> h[i].children[j] + n]]]

\* variant of the flattening loop that adds every node twice
RECURSIVE AddRefsTwice(_, _, _)
AddRefsTwice(heap, parent, refs) ==
    IF refs = <<>> THEN heap
    ELSE AddRefsTwice(add(add(heap, parent, Head(refs)), parent, Head(refs)),
                      parent, Tail(refs))

\* for child in subdoc.outlines: page_node.add(child), lines 494-495
RECURSIVE AddRefs(_, _, _)
AddRefs(heap, parent, refs) ==
    IF refs = <<>> THEN heap
    ELSE AddRefs(add(heap, parent, Head(refs)), parent, Tail(refs))

\* variant of OPMLDocument.add that puts the node in front
DocAddFront(outlines, node) == <<node>> \o outlines

\* OPMLDocument.add, line 133-134: self.outlines.append(node)
DocAdd(outlines, node) == Append(outlines, node)

\* variant of the snippet step without the test of line 487
AddSnippetAlways(heap, page_node, snippet) ==
    add(Alloc(heap, Outline(SnippetPrefix \o SubSeq(snippet, 1, Len(snippet))
                            \o <<Ellipsis>>)),
        page_node, Len(heap) + 1)

\* if snippet: page_node.add(Outline(f"Snippet: {snippet[:200]}...")),
\* lines 487-489
AddSnippet(heap, page_node, snippet) ==
    LET cut == IF Len(snippet) < SnippetLen THEN Len(snippet) ELSE SnippetLen
    IN  IF snippet # <<>>
        THEN add(Alloc(heap, Outline(SnippetPrefix \o SubSeq(snippet, 1, cut)
                                     \o <<Ellipsis>>)),
                 page_node, Len(heap) + 1)
        ELSE heap

\* one iteration of the row loop, lines 473-497
RowStep(d, row, bs4) ==
    LET page_title == Or(row.title, SnapshotPrefix \o Str(row.id))
        page_node == Len(d.heap) + 1
        heap1 == Alloc(d.heap,
                       [text |-> page_title, children |-> <<>>,
                        attrs |-> << <<UrlKey, row.url>>,
                                     <<CapturedAtKey, Str(row.captured_at)>>,
                                     <<LocalIdKey, Str(row.id)>> >>])
        heap2 == AddSnippet(heap1, page_node, row.snippet)
        subdoc == build_opml_from_html(page_title, row.clean_html, <<>>, bs4)
        heap3 == IF row.clean_html.kind # "none"
                 THEN AddRefs(heap2 \o Relocate(subdoc.heap, Len(heap2)), page_node,
                              [j \in 1..Len(subdoc.outlines) |->
                                  subdoc.outlines[j] + Len(heap2)])
                 ELSE heap2
    IN  [d EXCEPT !.heap = heap3, !.outlines = DocAdd(d.outlines, page_node)]

RECURSIVE RowLoop(_, _, _)
RowLoop(d, rs, bs4) ==
    IF rs = <<>> THEN d ELSE RowLoop(RowStep(d, Head(rs), bs4), Tail(rs), bs4)

ArchiveTitle == <<"A", "r", "c", "h", "i", "v", "e">>

\* the document of lines 463-497
ArchiveDoc(rs, bs4) == RowLoop(OPMLDocument(ArchiveTitle, <<>>, <<>>), rs, bs4)

\* doc.to_xml(), lines 112-131, cut into blocks: the head, one block per
\* root outline, the tail
HeadBlock == <<"<", "h", "e", "a", "d", ">">>
TailBlock == <<"<", "/", "o", "p", "m", "l", ">">>
Hole == <<"N", "U", "L">>      \* bytes of a gap left by a write past the end

DocBlocks(d) ==
    <<HeadBlock>>
    \o [i \in 1..Len(d.outlines) |-> to_xml(d.heap, d.outlines[i], 2, 1)]
    \o <<TailBlock>>

\* SELECT ... ORDER BY captured_at DESC: the orders fetchall() may return
Perms(n) == {f \in [1..n -> 1..n] : \A i, j \in 1..n : i # j => f[i] # f[j]}

SelectOrders(t) ==
    {[i \in 1..Len(t) |-> t[f[i]]] : f \in
        {g \in Perms(Len(t)) :
            \A i, j \in 1..Len(t) : i < j => t[g[i]].captured_at >= t[g[j]].captured_at}}

\* a write of blocks at block offset o of a file holding data
WriteAt(data, o, blocks) ==
    LET n == IF Len(data) > o + Len(blocks) THEN Len(data) ELSE o + Len(blocks)
    IN  [i \in 1..n |->
            IF i > o /\ i <= o + Len(blocks) THEN blocks[i - o]
            ELSE IF i <= Len(data) THEN data[i]
            ELSE Hole]

\* conn = sqlite3.connect(db_path); cur.execute(SELECT ...); rows =
\* cur.fetchall(); conn.close()  (lines 450-460); the SELECT raises when
\* the table cannot be read
Fetch(p) ==
    /\ epc[p] = "idle"
    /\ IF tableOk
       THEN /\ \E rs \in SelectOrders(table) : rows' = [rows EXCEPT ![p] = rs]
            /\ epc' = [epc EXCEPT ![p] = "fetched"]
       ELSE /\ epc' = [epc EXCEPT ![p] = "error"]
            /\ UNCHANGED rows
    /\ UNCHANGED <<table, tableOk, canOpen, diskFull, file, file0, edoc, xmlText, off>>
    /\ UNCHANGED <<buildVars, xmlVars, sideVars>>

\* the document is built and serialized (lines 463-499), then
\* open(out_path, "w") truncates the destination or raises (line 501)
OpenOut(p) ==
    /\ epc[p] = "fetched"
    /\ edoc' = [edoc EXCEPT ![p] = ArchiveDoc(rows[p], haveBs4)]
    /\ xmlText' = [xmlText EXCEPT ![p] = DocBlocks(ArchiveDoc(rows[p], haveBs4))]
    /\ IF canOpen
       THEN /\ file' = [exists |-> TRUE, data |-> <<>>]
            /\ epc' = [epc EXCEPT ![p] = "writing"]
       ELSE /\ epc' = [epc EXCEPT ![p] = "error"]
            /\ UNCHANGED file
    /\ UNCHANGED <<table, tableOk, canOpen, diskFull, file0, rows, off>>
    /\ UNCHANGED <<buildVars, xmlVars, sideVars>>

\* f.write(xml_text) (line 502): the buffered writer passes the text to the
\* file in one or more writes at the position of this file object
Flush(p) ==
    /\ epc[p] = "writing"
    /\ off[p] < Len(xmlText[p])
    /\ ~diskFull
    /\ \E k \in 1..(Len(xmlText[p]) - off[p]) :
          /\ file' = [file EXCEPT !.data =
                         WriteAt(@, off[p], SubSeq(xmlText[p], off[p] + 1, off[p] + k))]
          /\ off' = [off EXCEPT ![p] = @ + k]
    /\ UNCHANGED <<table, tableOk, canOpen, diskFull, file0, epc, rows, edoc, xmlText>>
    /\ UNCHANGED <<buildVars, xmlVars, sideVars>>

\* a write fails: the exception leaves the with block and reaches the caller
WriteFail(p) ==
    /\ epc[p] = "writing"
    /\ off[p] < Len(xmlText[p])
    /\ diskFull
    /\ epc' = [epc EXCEPT ![p] = "error"]
    /\ UNCHANGED <<table, tableOk, canOpen, diskFull, file, file0, rows, edoc, xmlText, off>>
    /\ UNCHANGED <<buildVars, xmlVars, sideVars>>

\* the with block closes the file; return xml_text (lines 504-505)
Close(p) ==
    /\ epc[p] = "writing"
    /\ off[p] = Len(xmlText[p])
    /\ epc' = [epc EXCEPT ![p] = "done"]
    /\ UNCHANGED <<table, tableOk, canOpen, diskFull, file, file0, rows, edoc, xmlText, off>>
    /\ UNCHANGED <<buildVars, xmlVars, sideVars>>

\* the process is killed (or the machine stops) during the call
Crash(p) ==
    /\ epc[p] \in {"fetched", "writing"}
    /\ epc' = [epc EXCEPT ![p] = "crashed"]
    /\ UNCHANGED <<table, tableOk, canOpen, diskFull, file, file0, rows, edoc, xmlText, off>>
    /\ UNCHANGED <<buildVars, xmlVars, sideVars>>

\* the space on the destination's file system runs out
DiskFills ==
    /\ ~diskFull
    /\ \E p \in Procs : epc[p] = "writing"
    /\ diskFull' = TRUE
    /\ UNCHANGED <<table, tableOk, canOpen, file, file0, epc, rows, edoc, xmlText, off>>
    /\ UNCHANGED <<buildVars, xmlVars, sideVars>>

\* html_to_snippet, navigator_rpc.py 83-89: the text between the tags
RECURSIVE ElemWords(_)
ElemWords(elems) ==
    IF elems = <<>> THEN <<>>
    ELSE LET e == Head(elems)
         IN  (IF e.tag = "ul" THEN e.items ELSE <<e.text>>) \o ElemWords(Tail(elems))

RECURSIVE JoinWords(_)
JoinWords(ws) ==
    IF ws = <<>> THEN <<>>
    ELSE IF Head(ws) = <<>> THEN JoinWords(Tail(ws))
    ELSE LET rest == JoinWords(Tail(ws))
         IN  Head(ws) \o (IF rest = <<>> THEN <<>> ELSE <<" ">> \o rest)

SnippetMaxLen == 500

html_to_snippet(html) ==
    LET t == JoinWords(<<html.docTitle>> \o ElemWords(html.elems))
    IN  SubSeq(t, 1, IF Len(t) < SnippetMaxLen THEN Len(t) ELSE SnippetMaxLen)

LastCaptured == IF table = <<>> THEN 1 ELSE Last(table).captured_at

\* save_archive_page, navigator_rpc.py 111-129: one INSERT, committed at once
SaveArchivePage(pages) ==
    /\ tableOk
    /\ Len(table) < MaxRows
    /\ \E pg \in pages, now \in {LastCaptured, LastCaptured + 1} :
          table' = Append(table,
                          [id |-> Len(table) + 1, title |-> pg.title, url |-> pg.url,
                           captured_at |-> now, snippet |-> html_to_snippet(pg.html),
                           clean_html |-> pg.html])
    /\ UNCHANGED <<tableOk, canOpen, diskFull, file, file0, epc, rows, edoc, xmlText, off>>
    /\ UNCHANGED <<buildVars, xmlVars, sideVars>>

\* the rows a database may hold: a titled page with snippet and headings,
\* an untitled row with nothing else, a titled page with a snippet longer
\* than the export keeps and no body, an untitled page whose body has no
\* structure
HeadingBody ==
    [kind |-> "html", elems |-> <<Heading(1, <<"A">>)>>, docTitle |-> <<>>, lines |-> <<>>]
PlainBody == [kind |-> "html", elems |-> <<>>, docTitle |-> <<>>, lines |-> <<>>]
LongSnippet == [i \in 1..(SnippetLen + 1) |-> IF i <= SnippetLen THEN "s" ELSE "z"]

RowKinds ==
    {[title |-> <<"T">>, snippet |-> <<"s">>, clean_html |-> HeadingBody],
     [title |-> <<>>, snippet |-> <<>>, clean_html |-> NoPayload],
     [title |-> <<"T">>, snippet |-> LongSnippet, clean_html |-> NoPayload],
     [title |-> <<>>, snippet |-> <<>>, clean_html |-> PlainBody]}

RowsAt(i) ==
    {[id |-> i, title |-> k.title, url |-> <<"u">>, captured_at |-> c,
      snippet |-> k.snippet, clean_html |-> k.clean_html] :
        k \in RowKinds, c \in 1..2}

\* tables of up to MaxRows rows; ids and capture times grow with insertion
Tables ==
    {t \in UNION {[1..n -> UNION {RowsAt(i) : i \in 1..MaxRows}] : n \in 0..MaxRows} :
        /\ \A i \in 1..Len(t) : t[i].id = i
        /\ \A i \in 1..(Len(t) - 1) : t[i].captured_at <= t[i + 1].captured_at}

\* a complete document of an earlier export
OldExport == [exists |-> TRUE, data |-> <<HeadBlock, <<"o", "l", "d">>, TailBlock>>]

InitExport ==
    /\ table \in Tables
    /\ tableOk \in BOOLEAN
    /\ canOpen \in BOOLEAN
    /\ diskFull = FALSE
    /\ file0 \in {NoFile, OldExport}
    /\ file = file0
    /\ epc = [p \in Procs |-> IF p = 1 THEN "idle" ELSE "off"]
    /\ rows = [p \in Procs |-> <<>>]
    /\ edoc = [p \in Procs |-> NoDoc]
    /\ xmlText = [p \in Procs |-> <<>>]
    /\ off = [p \in Procs |-> 0]
    /\ haveBs4 \in BOOLEAN
    /\ BuildIdle
    /\ XmlIdle
    /\ SideIdle

\* one invocation of export_archive_to_opml and its environment
NextExport ==
    \/ Fetch(1)
    \/ OpenOut(1)
    \/ Flush(1)
    \/ WriteFail(1)
    \/ Close(1)
    \/ Crash(1)
    \/ DiskFills

SpecExport == InitExport /\ [][NextExport]_vars

\* the pages captured while exports run
ConcPages ==
    {[title |-> <<"T">>, url |-> <<"u">>,
      html |-> HeadingBody]}

InitConc ==
    /\ table = <<>>
    /\ tableOk = TRUE
    /\ canOpen = TRUE
    /\ diskFull = FALSE
    /\ file0 \in {NoFile, OldExport}
    /\ file = file0
    /\ epc = [p \in Procs |-> "idle"]
    /\ rows = [p \in Procs |-> <<>>]
    /\ edoc = [p \in Procs |-> NoDoc]
    /\ xmlText = [p \in Procs |-> <<>>]
    /\ off = [p \in Procs |-> 0]
    /\ haveBs4 \in BOOLEAN
    /\ BuildIdle
    /\ XmlIdle
    /\ SideIdle

\* two export_opml requests served by two threads, and captures
NextConc ==
    \/ \E p \in Procs : Fetch(p)
    \/ \E p \in Procs : OpenOut(p)
    \/ \E p \in Procs : Flush(p)
    \/ \E p \in Procs : Close(p)
    \/ SaveArchivePage(ConcPages)

SpecConc == InitConc /\ [][NextConc]_vars

-----------------------------------------------------------------------------
(* Crawler: minimal_crawler.py 4-67 *)

\* w in s
Contains(s, w) == \E i \in 1..(Len(s) + 1) : StartsWith(s, i, w)

\* urlparse(url).netloc: when a scheme (letters before the first colon) is
\* there it is taken off; the network location is what stands between a
\* leading "//" and the next "/", "?" or "#", and is empty without "//"
Netloc(url) ==
    LET colons == {i \in 1..Len(url) : url[i] = ":"}
        c == IF colons = {} THEN 0
             ELSE CHOOSE i \in colons : \A j \in colons : i <= j
        hasScheme == c > 1 /\ \A i \in 1..(c - 1) : url[i] \in Upper \cup Lower
        rest == IF hasScheme THEN SubSeq(url, c + 1, Len(url)) ELSE url
        after == SubSeq(rest, 3, Len(rest))
        stops == {i \in 1..Len(after) : after[i] \in {"/", "?", "#"}}
        stop == IF stops = {} THEN Len(after) + 1
                ELSE CHOOSE i \in stops : \A j \in stops : i <= j
    IN  IF StartsWith(rest, 1, <<"/", "/">>) THEN SubSeq(after, 1, stop - 1) ELSE <<>>

\* root_domain, lines 23-26 (empty: None, or a first seed without netloc)
root_domain == IF same_domain_only /\ seeds # <<>> THEN Netloc(seeds[1]) ELSE <<>>

\* variant of the test of line 36 that never finds a URL visited
InVisitedNever(url, vis) == FALSE

\* url in visited, line 36
InVisited(url, vis) == url \in vis

\* the filters of lines 54-61 on one link
Wanted(link) ==
    /\ (same_domain_only /\ root_domain # <<>>) => Netloc(link) = root_domain
    /\ allowed_keywords # <<>> =>
          \E k \in 1..Len(allowed_keywords) : Contains(lower(link), allowed_keywords[k])

\* for link in links: ... queue.append((link, depth + 1)), lines 52-64
RECURSIVE Discover(_, _, _, _)
Discover(q, links, depth, vis) ==
    IF links = <<>> THEN q
    ELSE Discover(IF Wanted(Head(links)) /\ Head(links) \notin vis
                  THEN Append(q, <<Head(links), depth + 1>>)
                  ELSE q,
                  Tail(links), depth, vis)

\* the loop goes on: while queue and pages_archived < max_pages
Crawling == cpc = "run" /\ queue # <<>> /\ pages_archived < max_pages

\* an iteration that pops a URL already visited: continue (lines 35-37)
CrawlSkip ==
    /\ Crawling
    /\ InVisited(Head(queue)[1], visited)
    /\ queue' = Tail(queue)
    /\ UNCHANGED <<cpc, seeds, max_pages, same_domain_only, allowed_keywords, web,
                   visited, pages_archived, fetched, archived>>
    /\ UNCHANGED <<buildVars, xmlVars, exportVars, watchVars, capVars>>

\* an iteration whose fetch_html raises: the URL is visited, nothing is
\* archived (lines 35-44)
CrawlFetchFail ==
    /\ Crawling
    /\ ~InVisited(Head(queue)[1], visited)
    /\ queue' = Tail(queue)
    /\ visited' = visited \cup {Head(queue)[1]}
    /\ fetched' = Append(fetched, Head(queue)[1])
    /\ UNCHANGED <<cpc, seeds, max_pages, same_domain_only, allowed_keywords, web,
                   pages_archived, archived>>
    /\ UNCHANGED <<buildVars, xmlVars, exportVars, watchVars, capVars>>

\* an iteration that fetches, archives and enqueues the links (lines 35-64)
CrawlArchive ==
    /\ Crawling
    /\ ~InVisited(Head(queue)[1], visited)
    /\ LET url == Head(queue)[1]
           depth == Head(queue)[2]
       IN  /\ visited' = visited \cup {url}
           /\ fetched' = Append(fetched, url)
           /\ archived' = Append(archived, url)
           /\ pages_archived' = pages_archived + 1
           /\ queue' = Discover(Tail(queue), web[url], depth, visited \cup {url})
    /\ UNCHANGED <<cpc, seeds, max_pages, same_domain_only, allowed_keywords, web>>
    /\ UNCHANGED <<buildVars, xmlVars, exportVars, watchVars, capVars>>

\* the loop condition fails and the function returns
CrawlReturn ==
    /\ cpc = "run"
    /\ ~Crawling
    /\ cpc' = "done"
    /\ UNCHANGED <<seeds, max_pages, same_domain_only, allowed_keywords, web, queue,
                   visited, pages_archived, fetched, archived>>
    /\ UNCHANGED <<buildVars, xmlVars, exportVars, watchVars, capVars>>

\* the URLs of the model: two pages of one site and a page of another
UrlAX == <<"h", ":", "/", "/", "a", "/", "x">>
UrlAY == <<"h", ":", "/", "/", "a", "/", "y">>
UrlBZ == <<"h", ":", "/", "/", "b", "/", "z">>
Urls == {UrlAX, UrlAY, UrlBZ}

\* the lists of links a page may hold
LinkLists == {<<>>, <<UrlAY, UrlAY>>, <<UrlBZ, UrlAX>>, <<UrlAY, UrlBZ>>}

\* for s in seeds: queue.append((s, 0)), lines 28-29
InitCrawl ==
    /\ cpc = "run"
    /\ seeds \in SeqsUpTo(Urls, MaxSeeds)
    /\ max_pages \in 0..MaxPages
    /\ same_domain_only \in BOOLEAN
    /\ allowed_keywords \in {<<>>, << <<"y">> >>}
    /\ web \in [Urls -> LinkLists]
    /\ queue = [i \in 1..Len(seeds) |-> <<seeds[i], 0>>]
    /\ visited = {}
    /\ pages_archived = 0
    /\ fetched = <<>>
    /\ archived = <<>>
    /\ haveBs4 = FALSE
    /\ BuildIdle
    /\ XmlIdle
    /\ ExportIdle
    /\ WatchIdle
    /\ CapIdle

NextCrawl == CrawlSkip \/ CrawlFetchFail \/ CrawlArchive \/ CrawlReturn

SpecCrawl == InitCrawl /\ [][NextCrawl]_vars

-----------------------------------------------------------------------------
(* Directory watcher: opml_loader.py 9-41 *)

DotOpml == <<".", "o", "p", "m", "l">>

\* the files a directory may hold: two OPML files and a file of another kind
FileNames == {<<"a">> \o DotOpml, <<"b">> \o DotOpml, <<"n", ".", "t", "x", "t">>}

\* glob.glob(os.path.join(dir, "*.opml")): the names that end in ".opml"
\* and do not begin with a dot
Glob(files) ==
    {f \in files :
        /\ Len(f) >= Len(DotOpml)
        /\ StartsWith(f, Len(f) - Len(DotOpml) + 1, DotOpml)
        /\ f[1] # "."}

\* files != self._last, line 39
Changed(files, last) == files # last

\* the second half of _tick, lines 39-41, run by "start" or by "loop":
\* self._last = files; self.on_change(list_opml(self.dir)); the list is
\* read from the directory anew (as a set here: the code sorts it by path)
Report(by) ==
    IF Changed(wseen, wlast)
    THEN /\ wlast' = wseen
         /\ reports' = Append(reports, [by |-> by, seen |-> wseen, last |-> wlast,
                                        listed |-> Glob(dirFiles)])
    ELSE UNCHANGED <<wlast, reports>>

\* start(): the first half of the initial tick, line 38
StartObserve ==
    /\ wpc = "new"
    /\ wseen' = Glob(dirFiles)
    /\ wpc' = "starting"
    /\ UNCHANGED <<dirFiles, changes, wlast, wstop, reports>>
    /\ UNCHANGED <<buildVars, xmlVars, exportVars, crawlVars, capVars>>

\* start(): the rest of the initial tick, then the thread is started
StartReport ==
    /\ wpc = "starting"
    /\ Report("start")
    /\ wpc' = "running"
    /\ UNCHANGED <<dirFiles, changes, wseen, wstop>>
    /\ UNCHANGED <<buildVars, xmlVars, exportVars, crawlVars, capVars>>

\* _loop: while not self._stop.is_set(): self._tick() ... (first half)
LoopObserve ==
    /\ wpc = "running"
    /\ ~wstop
    /\ wseen' = Glob(dirFiles)
    /\ wpc' = "ticking"
    /\ UNCHANGED <<dirFiles, changes, wlast, wstop, reports>>
    /\ UNCHANGED <<buildVars, xmlVars, exportVars, crawlVars, capVars>>

\* _loop: the rest of the tick, then time.sleep(self.interval)
LoopReport ==
    /\ wpc = "ticking"
    /\ Report("loop")
    /\ wpc' = "running"
    /\ UNCHANGED <<dirFiles, changes, wseen, wstop>>
    /\ UNCHANGED <<buildVars, xmlVars, exportVars, crawlVars, capVars>>

\* _loop finds the event set and the thread ends
LoopExit ==
    /\ wpc = "running"
    /\ wstop
    /\ wpc' = "stopped"
    /\ UNCHANGED <<dirFiles, changes, wlast, wseen, wstop, reports>>
    /\ UNCHANGED <<buildVars, xmlVars, exportVars, crawlVars, capVars>>

\* stop(): self._stop.set()
Stop ==
    /\ wpc \in {"running", "ticking"}
    /\ ~wstop
    /\ wstop' = TRUE
    /\ UNCHANGED <<wpc, dirFiles, changes, wlast, wseen, reports>>
    /\ UNCHANGED <<buildVars, xmlVars, exportVars, crawlVars, capVars>>

\* a file is put into the directory or taken out of it
DirChange ==
    /\ wpc \in {"new", "starting", "running", "ticking"}
    /\ changes < MaxChanges
    /\ \E f \in FileNames :
          dirFiles' = IF f \in dirFiles THEN dirFiles \ {f} ELSE dirFiles \cup {f}
    /\ changes' = changes + 1
    /\ UNCHANGED <<wpc, wlast, wseen, wstop, reports>>
    /\ UNCHANGED <<buildVars, xmlVars, exportVars, crawlVars, capVars>>

\* OpmlWatcher.__init__, lines 14-19
InitWatch ==
    /\ wpc = "new"
    /\ dirFiles \in SUBSET FileNames
    /\ changes = 0
    /\ wlast = {}
    /\ wseen = {}
    /\ wstop = FALSE
    /\ reports = <<>>
    /\ haveBs4 = FALSE
    /\ BuildIdle
    /\ XmlIdle
    /\ ExportIdle
    /\ CrawlIdle
    /\ CapIdle

NextWatch ==
    \/ StartObserve
    \/ StartReport
    \/ LoopObserve
    \/ LoopReport
    \/ LoopExit
    \/ Stop
    \/ DirChange

SpecWatch == InitWatch /\ [][NextWatch]_vars

-----------------------------------------------------------------------------
(* Context capsule: navigator_rpc.py 132-173 and 371-395,                  *)
(* ai_navigator.py 940-947 and 1043-1089                                   *)

\* characters that are not written in the strings of this module, each
\* standing for one character
EmDash == "(U+2014)"
EnDash == "(U+2013)"
ModApostrophe == "(U+02BC)"

Backtick == "(U+0060)"

Backticks == <<Backtick, Backtick, Backtick>>

\* s.replace("```", three U+02BC)
RECURSIVE ReplaceTicks(_)
ReplaceTicks(s) ==
    IF Backtick \notin Range(s) THEN s
    ELSE IF StartsWith(s, 1, Backticks)
    THEN <<ModApostrophe, ModApostrophe, ModApostrophe>>
         \o ReplaceTicks(SubSeq(s, 4, Len(s)))
    ELSE <<Head(s)>> \o ReplaceTicks(Tail(s))

\* re.sub(r"\s+\n", "\n", s): in every run of white space, what stands up
\* to its last line break, when something stands before that break, is
\* replaced by one line break
RECURSIVE SquashBeforeNewline(_)
SquashBeforeNewline(s) ==
    IF "\n" \notin Range(s) THEN s
    ELSE IF Head(s) \notin PySpace
    THEN <<Head(s)>> \o SquashBeforeNewline(Tail(s))
    ELSE LET n == Len(s) - Len(LstripChars(s, PySpace))
             breaks == {j \in 1..n : s[j] = "\n"}
             j == IF breaks = {} THEN 0 ELSE Max(breaks)
         IN  (IF j >= 2 THEN <<"\n">> \o SubSeq(s, j + 1, n) ELSE SubSeq(s, 1, n))
             \o SquashBeforeNewline(SubSeq(s, n + 1, Len(s)))

\* _clean_for_capsule, lines 132-135
clean_for_capsule(s) == Strip(SquashBeforeNewline(ReplaceTicks(s)))

\* the slice s[:k] of Python: a negative k counts from the end
SliceTo(s, k) ==
    IF k >= 0 THEN SubSeq(s, 1, IF k < Len(s) THEN k ELSE Len(s))
    ELSE SubSeq(s, 1, IF Len(s) + k > 0 THEN Len(s) + k ELSE 0)

MaxBody == 5200
BodyReserve == 1000
TruncateBack == 25

\* build_context_capsule_for_snapshot, lines 138-173
build_context_capsule_for_snapshot(t, u, captured_at, snip, bdy, cap) ==
    LET CapsuleTitle ==
            <<"#", "#", "#", " ", "C", "o", "n", "t", "e", "x", "t", " ", "C", "a",
              "p", "s", "u", "l", "e", " ", EmDash, " ", "a", "i", "_", "n", "a",
              "v", "i", "g", "a", "t", "o", "r", "\n">>
        TitleLabel ==
            <<"T", "i", "t", "l", "e", ":", " ">>
        UrlLabel ==
            <<"U", "R", "L", ":", " ">>
        CapturedLabel ==
            <<"C", "a", "p", "t", "u", "r", "e", "d", ":", " ">>
        Rule ==
            <<"-", "-", "-", "\n">>
        SnippetHead ==
            <<"*", "*", "S", "n", "i", "p", "p", "e", "t", "*", "*", "\n">>
        HtmlHead ==
            <<"*", "*", "R", "e", "a", "d", "e", "r", "-", "M", "o", "d", "e", " ",
              "H", "T", "M", "L", " ", "(", "e", "x", "c", "e", "r", "p", "t", ")",
              "*", "*", "\n", Backtick, Backtick, Backtick, "h", "t", "m", "l", "\n">>
        HtmlTail ==
            <<"\n", Backtick, Backtick, Backtick, "\n">>
        Footer ==
            <<"\n", "C", "o", "n", "t", "i", "n", "u", "e", " ", "f", "r", "o",
              "m", " ", "t", "h", "i", "s", " ", "c", "a", "p", "s", "u", "l", "e",
              ".", " ", "S", "u", "m", "m", "a", "r", "i", "z", "e", " ", "k", "e",
              "y", " ", "p", "o", "i", "n", "t", "s", " ", "f", "r", "o", "m", " ",
              "t", "h", "e", " ", "p", "a", "g", "e", ",", " ", "t", "h", "e", "n",
              " ", "p", "r", "o", "p", "o", "s", "e", " ", "t", "h", "e", " ", "n",
              "e", "x", "t", " ", "1", EnDash, "2", " ", "a", "c", "t", "i", "o",
              "n", "s", " ", "o", "r", " ", "q", "u", "e", "s", "t", "i", "o", "n",
              "s", ".", " ", "I", "f", " ", "a", "n", "y", "t", "h", "i", "n", "g",
              " ", "i", "s", " ", "u", "n", "c", "l", "e", "a", "r", ",", " ", "a",
              "s", "k", " ", "f", "o", "r", " ", "t", "h", "e", " ", "s", "i", "n",
              "g", "l", "e", " ", "m", "o", "s", "t", " ", "r", "e", "l", "e", "v",
              "a", "n", "t", " ", "d", "e", "t", "a", "i", "l", " ", "r", "a", "t",
              "h", "e", "r", " ", "t", "h", "a", "n", " ", "r", "e", "s", "t", "a",
              "r", "t", "i", "n", "g", ".">>
        TruncatedMark ==
            <<"\n", Ellipsis, "[", "t", "r", "u", "n", "c", "a", "t", "e", "d",
              "]", Ellipsis>>
        title1 == clean_for_capsule(t)
        url == clean_for_capsule(u)
        snippet == clean_for_capsule(snip)
        body == clean_for_capsule(bdy)
        room == IF cap - BodyReserve < MaxBody THEN cap - BodyReserve ELSE MaxBody
        max_body == IF room > 0 THEN room ELSE 0
        body_slice == SliceTo(body, max_body)
        header == CapsuleTitle \o TitleLabel \o title1 \o <<"\n">>
                  \o UrlLabel \o url \o <<"\n">>
                  \o CapturedLabel \o captured_at \o <<"\n">> \o Rule
        snippet_block == IF snippet # <<>> THEN SnippetHead \o snippet \o <<"\n", "\n">>
                         ELSE <<>>
        html_block == HtmlHead \o body_slice \o HtmlTail
        whole == header \o snippet_block \o html_block \o Footer
    IN  IF Len(whole) > cap
        THEN SliceTo(whole, cap - TruncateBack) \o TruncatedMark
        ELSE whole

AboutBlank == <<"a", "b", "o", "u", "t", ":", "b", "l", "a", "n", "k">>

\* the call of lines 386-393 (and of ai_navigator.py 941-948) on a row
CapsuleOf(row, cap) ==
    build_context_capsule_for_snapshot(Or(row.title, Or(row.url, Untitled)),
                                       Or(row.url, AboutBlank),
                                       row.captured_at, row.snippet, row.body, cap)

\* NavigatorRPC.context_capsule, lines 371-395
ContextCapsule ==
    /\ cappc = "ask"
    /\ IF caprow = <<>>
       THEN /\ cappc' = "error"
            /\ UNCHANGED capsule
       ELSE /\ capsule' = CapsuleOf(caprow[1], hard_cap_chars)
            /\ cappc' = "done"
    /\ UNCHANGED <<caprow, hard_cap_chars>>
    /\ UNCHANGED <<buildVars, xmlVars, exportVars, crawlVars, watchVars>>

GuiCap == 6500

\* _recover_to_chatgpt_selected, ai_navigator.py 911-948: the capsule of the
\* selected snapshot, with the cap fixed
RecoverToChatgpt ==
    /\ cappc = "ask"
    /\ IF caprow = <<>>
       THEN /\ cappc' = "error"
            /\ UNCHANGED <<capsule, hard_cap_chars>>
       ELSE /\ capsule' = CapsuleOf(caprow[1], GuiCap)
            /\ hard_cap_chars' = GuiCap
            /\ cappc' = "done"
    /\ UNCHANGED caprow
    /\ UNCHANGED <<buildVars, xmlVars, exportVars, crawlVars, watchVars>>

\* the texts of the rows: empty (NULL), short, with back ticks and white
\* space before line breaks, and longer than the capsule may be
LongTitle == [i \in 1..GuiCap |-> "t"]
LongBody == [i \in 1..(MaxBody + 1) |-> "b"]

CapRows ==
    {[title |-> t, url |-> u, captured_at |-> c, snippet |-> sn, body |-> b] :
        t \in {<<>>, <<"T">>, LongTitle},
        u \in {<<>>, <<"u">>},
        c \in {<<>>, <<"1">>},
        sn \in {<<>>, <<"s">>, <<Backtick, Backtick, Backtick, " ", "\n", "\n", "s", " ">>},
        b \in {<<>>, <<"a", "b", "c", "d">>, LongBody}}

\* the caps a caller asks for
Caps == {0, 1, TruncateBack - 1, TruncateBack, 100, 400, BodyReserve + 3, GuiCap}

InitCapsule ==
    /\ cappc = "ask"
    /\ caprow \in {<<>>} \cup {<<r>> : r \in CapRows}
    /\ hard_cap_chars \in Caps
    /\ capsule = <<>>
    /\ haveBs4 = FALSE
    /\ BuildIdle
    /\ XmlIdle
    /\ ExportIdle
    /\ CrawlIdle
    /\ WatchIdle

NextCapsule == ContextCapsule \/ RecoverToChatgpt

SpecCapsule == InitCapsule /\ [][NextCapsule]_vars

-----------------------------------------------------------------------------
(* Properties of the serializer *)

\* the characters of s that XML 1.0 allows, in their order
StripIllegal(s) == SelectSeq(s, LAMBDA c : ~XmlIllegal(c))

StripNode(n) ==
    [n EXCEPT !.text = StripIllegal(@),
              !.attrs = [i \in 1..Len(n.attrs) |->
                            <<n.attrs[i][1], StripIllegal(n.attrs[i][2])>>]]

StripHeap(heap) == [i \in 1..Len(heap) |-> StripNode(heap[i])]

\* every label, attribute value and head field is made of ordinary
\* characters and XML metacharacters only
OnlyLegalInput ==
    /\ \A i \in 1..Len(xheap) : StripNode(xheap[i]) = xheap[i]
    /\ StripIllegal(xdoc.title) = xdoc.title
    /\ StripIllegal(xdoc.owner_name) = xdoc.owner_name

\* C3: for labels, attribute values and head fields made of ordinary
\* characters and the five XML metacharacters, the serialized text is
\* well-formed XML: every outline of the tree and every head field parses.
C3_WellFormedOutput ==
    (xpc = "serialized" /\ OnlyLegalInput) =>
        /\ ParseTags(xml, 1, <<>>).ok
        /\ Len(ParseTags(xml, 1, <<>>).val) = Len(xheap)
        /\ ParseField(TitleTag, xhead[1]).ok
        /\ Len(xhead) > 1 => ParseField(OwnerTag, xhead[2]).ok

\* C4: the serialized text holds no character that XML 1.0 forbids, and is
\* the text of the tree whose labels and attribute values had exactly those
\* characters removed.
C4_IllegalCharsStripped ==
    xpc = "serialized" =>
        /\ \A i \in 1..Len(xml) : ~XmlIllegal(xml[i])
        /\ xml = to_xml(StripHeap(xheap), 1, 2, 1)

\* C10: reading the serialized root back gives the stripped label and the
\* stripped attribute values.
C10_RoundTrip ==
    xpc = "parsed" =>
        /\ parsed.ok
        /\ parsed.text = StripIllegal(xheap[1].text)
        /\ \A i \in 1..Len(xheap[1].attrs) :
              DictGet(parsed.attrs, xheap[1].attrs[i][1], Untitled)
                  = StripIllegal(xheap[1].attrs[i][2])

\* the declared attributes of a node other than the reserved key
Declared(attrs) == SelectSeq(attrs, LAMBDA a : a[1] # TextKey)

\* C11: the tag written for a node lists text first and once, with the
\* node's label as its value, then the declared attributes in insertion
\* order, no key twice; also when the attribute mapping holds a key text.
C11_TextFirstOnce ==
    xpc = "serialized" =>
        \E close \in {<<"/", ">", "\n">>, <<">", "\n">>} :
            StartsWith(xml, 1,
                       Spaces(2) \o OpenTag \o <<" ">>
                       \o AttrStr(<< <<TextKey, xheap[1].text>> >> \o Declared(xheap[1].attrs))
                       \o close)

-----------------------------------------------------------------------------
(* Properties of the payload detection *)

\* the payload holds a structural tag: it is markup with a title (a complete
\* document) or with a heading, list or paragraph element
HasStructuralTag(p) == p.kind = "html" /\ (p.elems # <<>> \/ p.docTitle # <<>>)

\* C12: the entry points that detect the kind of their payload send it to
\* the heading/list extractor exactly when it holds a structural tag, and to
\* the text extractor otherwise; convert_payload_to_opml decides as
\* build_opml_from_file does.
C12_MarkupDetection ==
    entry \in {"convert", "file"} => (route = "html" <=> HasStructuralTag(payload))

-----------------------------------------------------------------------------
(* Properties of the assembler *)

NoStructure ==
    payload.elems = <<>> /\ payload.docTitle = <<>> /\ payload.lines = <<>>

\* C6: a payload without structure and a title hint T (no title set in the
\* configuration) give a document whose only root is a leaf labelled T.
C6_PlaceholderIsTitleHint ==
    (pc = "built" /\ NoStructure /\ title # <<>> /\ cfgTitle = <<>>) =>
        /\ Len(doc.outlines) = 1
        /\ doc.heap[doc.outlines[1]].text = title
        /\ doc.heap[doc.outlines[1]].children = <<>>

-----------------------------------------------------------------------------
(* Properties of the archive export *)

Built(p) == xmlText[p] # <<>>

BodyKids(kids, snippet) == SubSeq(kids, IF snippet # <<>> THEN 2 ELSE 1, Len(kids))

\* the subtrees of the nodes ns of a heap, as text
Subtrees(heap, ns) == [j \in 1..Len(ns) |-> to_xml(heap, ns[j], 2, 2)]

C14_BodyFlattened ==
    \A p \in Procs : Built(p) =>
        \A i \in 1..Len(rows[p]) :
            LET r == rows[p][i]
                h == edoc[p].heap
                n == h[edoc[p].outlines[i]]
                ext == html_to_outline(r.clean_html, haveBs4).heap
            IN  r.clean_html.kind # "none" =>
                    Subtrees(h, BodyKids(n.children, r.snippet))
                        = Subtrees(ext, ext[1].children)

\* C2: at every instant the destination holds what it held before the
\* export, or the complete new document.
C2_AtomicWrite ==
    \/ file = file0
    \/ \E p \in Procs : Built(p) /\ file = [exists |-> TRUE, data |-> xmlText[p]]

\* C8: with two invocations on one destination, whenever none of them is
\* between opening and closing the file, the destination is as it was
\* before them or holds the complete output of one of them, never a
\* mixture of the two.
C8_OneInvocationsOutput ==
    (\A p \in Procs : epc[p] # "writing") =>
        \/ file = file0
        \/ \E p \in Procs : epc[p] = "done" /\ file.data = xmlText[p]

\* C9: when the call fails, the destination is as it was before the call.
C9_FailureLeavesFile ==
    \A p \in Procs : epc[p] = "error" => file = file0

-----------------------------------------------------------------------------
(* Properties of the heading nesting *)

\* the nodes that list n among their children
Parents(heap, n) == {p \in 1..Len(heap) : n \in Range(heap[p].children)}

\* the headings the extractor sees, in document order
SeenHeadings ==
    IF haveBs4 THEN SelectSeq(payload.elems, LAMBDA e : e.tag = "h")
    ELSE MiniHeadings(payload.elems)

\* the most recent heading before k whose level is strictly lower (0: none)
NearestLower(hs, k) ==
    LET J == {j \in 1..(k - 1) : hs[j].lvl < hs[k].lvl}
    IN  IF J = {} THEN 0 ELSE Max(J)

\* C1: every heading node is a child of exactly the node of the most recent
\* preceding heading of strictly lower level, or of the root (object 1) when
\* there is none; so equal adjacent levels are siblings and strictly
\* increasing levels form a chain of descendants.
C1_NestUnderNearestLower ==
    (pc = "extracted" /\ payload.kind = "html") =>
        /\ ~outline.err
        /\ Len(outline.hids) = Len(SeenHeadings)
        /\ \A k \in 1..Len(SeenHeadings) :
              Parents(outline.heap, outline.hids[k]) =
                  {IF NearestLower(SeenHeadings, k) = 0 THEN 1
                   ELSE outline.hids[NearestLower(SeenHeadings, k)]}

\* three headings: two adjacent ones of equal level, then a deeper one
C1_Witness ==
    /\ pc = "extracted" /\ payload.kind = "html"
    /\ Len(SeenHeadings) = 3
    /\ SeenHeadings[1].lvl = SeenHeadings[2].lvl
    /\ SeenHeadings[2].lvl < SeenHeadings[3].lvl
    /\ Parents(outline.heap, outline.hids[3]) = {outline.hids[2]}

\* the labels of the children of node n
KidLabels(heap, n) == [j \in 1..Len(heap[n].children) |-> heap[heap[n].children[j]].text]

\* the node labelled t: the scenarios label every node differently
NodeOf(heap, t) == CHOOSE n \in 1..Len(heap) : heap[n].text = t

\* C15, as stated: for <h1>A</h1><h2>B</h2><h2>C</h2><h3>D</h3> the tree is
\* A -> [B -> [D], C].
C15_ScenarioTree ==
    (pc = "extracted" /\ payload = HeadingScenario) =>
        LET h == outline.heap
        IN  /\ KidLabels(h, 1) = << <<"A">> >>
            /\ KidLabels(h, NodeOf(h, <<"A">>)) = << <<"B">>, <<"C">> >>
            /\ KidLabels(h, NodeOf(h, <<"B">>)) = << <<"D">> >>
            /\ KidLabels(h, NodeOf(h, <<"C">>)) = <<>>

\* C15, amended: for <h1>A</h1><h2>B</h2><h2>C</h2><h3>D</h3> the tree is
\* A -> [B, C -> [D]]: B and C are children of A, and D is a child of C,
\* the most recent heading of a lower level.
C15_ScenarioTreeAmended ==
    (pc = "extracted" /\ payload = HeadingScenario) =>
        LET h == outline.heap
        IN  /\ KidLabels(h, 1) = << <<"A">> >>
            /\ KidLabels(h, NodeOf(h, <<"A">>)) = << <<"B">>, <<"C">> >>
            /\ KidLabels(h, NodeOf(h, <<"B">>)) = <<>>
            /\ KidLabels(h, NodeOf(h, <<"C">>)) = << <<"D">> >>
            /\ KidLabels(h, NodeOf(h, <<"D">>)) = <<>>

\* the scenario extracted by the fallback parser
C15_Witness ==
    /\ pc = "extracted" /\ payload = HeadingScenario /\ ~haveBs4
    /\ Len(outline.hids) = 4
    /\ Parents(outline.heap, outline.hids[4]) = {outline.hids[3]}

-----------------------------------------------------------------------------
(* Properties of the text heuristics extractor *)

\* the lines of the payload as text_to_outline sees them
InputLines == [i \in 1..Len(TextLines(payload)) |-> Rstrip(TextLines(payload)[i])]

\* the three title rules on line k (counted from 1) of ls
AtxRule(ls, k) == StartsWith(Strip(ls[k]), 1, <<"#", " ">>)

SetextRule(ls, k) ==
    /\ k < Len(ls)
    /\ Range(Strip(ls[k + 1])) \in {{"="}, {"-"}}
    /\ Len(Strip(ls[k + 1])) >= Max({3, Len(Strip(ls[k])) \div 2})

CapsRule(ls, k) == TitleLineMatch(ls[k])

\* the lines among the first 8 that satisfy a title rule
TitleCandidates(ls) ==
    {k \in 1..Len(ls) : k <= 8 /\ (AtxRule(ls, k) \/ SetextRule(ls, k) \/ CapsRule(ls, k))}

\* the title line k gives, by the first of the rules it satisfies
TitleFrom(ls, k) ==
    IF ~AtxRule(ls, k) /\ SetextRule(ls, k) THEN Strip(ls[k])
    ELSE Strip(StripChars(ls[k], {"#", " "}))

\* the lines of ls without the title line k and, for an underlined title,
\* without its underline
WithoutTitle(ls, k) ==
    LET last == IF ~AtxRule(ls, k) /\ SetextRule(ls, k) THEN k + 1 ELSE k
    IN  SubSeq(ls, 1, k - 1) \o SubSeq(ls, last + 1, Len(ls))

TextExtracted == pc = "extracted" /\ route = "text"

\* C16, as stated: "# Title\n\nitem one\n- a\n- b\n- c\n" gives a root
\* "Title" with two children, a leaf "item one" and a sub-section whose
\* children are the leaves a, b, c.
C16_ScenarioText ==
    (TextExtracted /\ payload = TextScenario) =>
        LET h == outline.heap
            kids == h[1].children
        IN  /\ h[1].text = <<"T", "i", "t", "l", "e">>
            /\ Len(kids) = 2
            /\ h[kids[1]].text = TextScenario.lines[3]
            /\ h[kids[1]].children = <<>>
            /\ KidLabels(h, kids[2]) = << <<"a">>, <<"b">>, <<"c">> >>

\* C16, amended: the text gives a root "Title" with one child, a
\* sub-section labelled "item one" whose children are exactly the three
\* leaves a, b, c in that order.
C16_ScenarioTextAmended ==
    (TextExtracted /\ payload = TextScenario) =>
        LET h == outline.heap
            kids == h[1].children
        IN  /\ h[1].text = <<"T", "i", "t", "l", "e">>
            /\ Len(kids) = 1
            /\ h[kids[1]].text = TextScenario.lines[3]
            /\ KidLabels(h, kids[1]) = << <<"a">>, <<"b">>, <<"c">> >>
            /\ \A j \in 1..3 : h[h[kids[1]].children[j]].children = <<>>

C16_Witness ==
    /\ TextExtracted /\ payload = TextScenario
    /\ Len(outline.heap) = 5
    /\ Len(outline.heap[2].children) = 3

\* C17: the title is taken from the earliest of the first 8 lines that
\* satisfies a title rule, by the first rule the line satisfies (ATX, then
\* underline, then ALL-CAPS); a line at index 8 or later never gives the
\* title; with no such line, or when that line gives an empty title, the
\* root is labelled with the caller's fallback title (or "Document").
C17_TitleInference ==
    TextExtracted =>
        LET ls == InputLines
            fallback == Or(cfgTitle, Document)
        IN  outline.heap[1].text =
                IF TitleCandidates(ls) = {} THEN fallback
                ELSE Or(TitleFrom(ls, Min(TitleCandidates(ls))), fallback)

\* a text whose only title line is its ninth line, and a fallback title
C17_Witness ==
    /\ TextExtracted
    /\ Len(payload.lines) >= 9
    /\ AtxRule(payload.lines, 9)
    /\ TitleCandidates(payload.lines) = {}
    /\ cfgTitle # <<>>
    /\ outline.heap[1].text = cfgTitle

\* C18: when line k gives the title, the body that is cut into paragraphs
\* is the text without line k (and without its underline): every other
\* line, those before line k included, is still in it.
C18_OnlyTitleLinesRemoved ==
    (TextExtracted /\ TitleCandidates(InputLines) # {}) =>
        outline.heap =
            AddParas(<<Outline(outline.heap[1].text)>>, 1,
                     split_paragraphs(WithoutTitle(InputLines,
                                                   Min(TitleCandidates(InputLines)))))

\* a text that is one paragraph without title line and without colon
OneParagraph(ls) ==
    /\ ls # <<>>
    /\ \A k \in 1..Len(ls) : Strip(ls[k]) # <<>> /\ ":" \notin Range(ls[k])
    /\ TitleCandidates(ls) = {}

Marked(ls) == SelectSeq(ls, LAMBDA ln : ListMarkLen(ln) > 0)

\* the paragraph became a sub-section with item leaves
Bulletized == outline.heap[outline.heap[1].children[1]].children # <<>>

\* C19: a paragraph of n non-blank lines, m of them beginning with a list
\* marker, is bulletized by the marker rule exactly when 2 * m >= n.
C19_HalfMarked ==
    (TextExtracted /\ OneParagraph(InputLines)) =>
        (Bulletized <=> 2 * Len(Marked(InputLines)) >= Len(InputLines))

\* C20: when the marker rule fires on a paragraph, the sub-section has one
\* leaf per non-blank line of the paragraph, in line order, labelled with
\* the line without its marker, so that no line is lost.  (Stated for the
\* paragraphs that begin with a marker line, where no line stands as the
\* label of the sub-section.)
C20_OneLeafPerLine ==
    (TextExtracted /\ OneParagraph(InputLines) /\ Bulletized
        /\ ListMarkLen(InputLines[1]) > 0) =>
        KidLabels(outline.heap, outline.heap[1].children[1]) =
            [k \in 1..Len(InputLines) |->
                Strip(SubSeq(InputLines[k], ListMarkLen(InputLines[k]) + 1,
                             Len(InputLines[k])))]

-----------------------------------------------------------------------------
(* Properties of the paragraph loop *)

\* the lines that are left for the body when the title loop has run
BodyLines == InferTitle(InputLines, 0).lines

\* the lines at which a paragraph starts: a non-blank line that is the first
\* line or follows a blank line
ParaStarts(ls) ==
    {k \in 1..Len(ls) : Strip(ls[k]) # <<>> /\ (k = 1 \/ Strip(ls[k - 1]) = <<>>)}

\* paragraph j of ls: the block of non-blank lines from the j-th start to
\* the line before the next blank line, as one text
Paragraph(ls, j) ==
    LET S == ParaStarts(ls)
        first == CHOOSE k \in S : Cardinality({x \in S : x < k}) = j - 1
        last == Min({e \in first..Len(ls) : e = Len(ls) \/ Strip(ls[e + 1]) = <<>>})
    IN  Strip(JoinLines(SubSeq(ls, first, last)))

\* C21: the root has exactly one child per paragraph of the body (the
\* blank-line-separated non-empty blocks of the text left after the title),
\* in paragraph order: for a bulletized paragraph a sub-section node with at
\* least one child, its items in order; for any other paragraph a leaf
\* labelled with the whole paragraph.
C21_OneChildPerParagraph ==
    TextExtracted =>
        LET ls == BodyLines
            h == outline.heap
        IN  /\ Len(h[1].children) = Cardinality(ParaStarts(ls))
            /\ \A j \in 1..Cardinality(ParaStarts(ls)) :
                  LET para == Paragraph(ls, j)
                      c == h[1].children[j]
                      b == bulletize_lines(para)
                  IN  IF b.isNone
                      THEN h[c].text = para /\ h[c].children = <<>>
                      ELSE /\ Len(h[c].children) >= 1
                           /\ KidLabels(h, c) = b.bullets
                           /\ \A i \in 1..Len(h[c].children) :
                                 h[h[c].children[i]].children = <<>>

\* a body of two paragraphs, the first bulletized, the second not
C21_Witness ==
    /\ TextExtracted
    /\ Cardinality(ParaStarts(BodyLines)) = 2
    /\ Len(outline.heap[1].children) = 2
    /\ outline.heap[outline.heap[1].children[1]].children # <<>>
    /\ outline.heap[outline.heap[1].children[2]].children = <<>>
    /\ outline.heap[outline.heap[1].children[2]].text = Paragraph(BodyLines, 2)

-----------------------------------------------------------------------------
(* Properties of the trees as a whole *)

\* the nodes of a heap that are reached from the nodes S through children
RECURSIVE Closure(_, _)
Closure(heap, S) ==
    LET T == S \cup UNION {Range(heap[n].children) : n \in S}
    IN  IF T = S THEN S ELSE Closure(heap, T)

\* C22: every node of an extracted tree (root included), of a built
\* document and of an exported document has a non-empty label.
C22_NonEmptyLabels ==
    /\ pc \in {"extracted", "built"} =>
          \A n \in Closure(outline.heap, {1}) : outline.heap[n].text # <<>>
    /\ pc = "built" =>
          \A n \in Closure(doc.heap, Range(doc.outlines)) : doc.heap[n].text # <<>>
    /\ \A p \in Procs : Built(p) =>
          \A n \in Closure(edoc[p].heap, Range(edoc[p].outlines)) :
              edoc[p].heap[n].text # <<>>

HtmlExtracted == pc = "extracted" /\ route = "html" /\ ~outline.err

\* the texts of the non-empty paragraphs that stand before the first
\* heading of the document, in document order
StrayParagraphs(elems) ==
    LET H == {k \in 1..Len(elems) : elems[k].tag = "h"}
        upto == IF H = {} THEN Len(elems) ELSE Min(H) - 1
        ps == SelectSeq(SubSeq(elems, 1, upto), LAMBDA e : e.tag = "p" /\ e.text # <<>>)
    IN  [i \in 1..Len(ps) |-> ps[i].text]

\* C23: the tree of html_to_outline holds at most one node labelled
\* "Unsorted"; when there is one it is the last child of the root and of no
\* other node, it has at least one child, and its children are exactly the
\* non-empty paragraph texts that stand under no heading, in order.
C23_UnsortedBucket ==
    HtmlExtracted =>
        LET h == outline.heap
            U == {n \in Closure(h, {1}) : n # 1 /\ h[n].text = Unsorted}
        IN  /\ Cardinality(U) <= 1
            /\ \A u \in U :
                  /\ Parents(h, u) = {1}
                  /\ Last(h[1].children) = u
                  /\ h[u].children # <<>>
                  /\ KidLabels(h, u) = StrayParagraphs(AsMarkup(payload).elems)

\* no element stands twice in s
NoDup(s) == \A i, j \in 1..Len(s) : i # j => s[i] # s[j]

\* the nodes reached from roots form a tree: no root and no child is listed
\* twice, a root has no parent in the document and every other node has
\* exactly one (so that one path leads to each node and there is no cycle)
StrictTree(heap, roots) ==
    LET N == Closure(heap, Range(roots))
    IN  /\ NoDup(roots)
        /\ \A n \in N : NoDup(heap[n].children)
        /\ \A n \in N :
              Cardinality({q \in N : n \in Range(heap[q].children)})
                  = (IF n \in Range(roots) THEN 0 ELSE 1)

\* every object of h1 is in h2 with the same label, and its children in h2
\* are those it had in h1, followed by new ones
Grows(h1, h2) ==
    /\ Len(h1) <= Len(h2)
    /\ \A n \in 1..Len(h1) :
          /\ h1[n].text = h2[n].text
          /\ Len(h1[n].children) <= Len(h2[n].children)
          /\ SubSeq(h2[n].children, 1, Len(h1[n].children)) = h1[n].children

-----------------------------------------------------------------------------
(* Properties of the crawler *)

\* C25: with same_domain_only, every URL fetched and every URL archived has
\* the network location of the first seed.
C25_StaysOnFirstSeedDomain ==
    (same_domain_only /\ seeds # <<>>) =>
        /\ \A i \in 1..Len(fetched) : Netloc(fetched[i]) = Netloc(seeds[1])
        /\ \A i \in 1..Len(archived) : Netloc(archived[i]) = Netloc(seeds[1])

\* C29: in one run no URL is fetched twice and none is archived twice, at
\* most max_pages pages are archived, the run has returned only with an
\* empty queue or max_pages pages archived, and once the queue is empty or
\* max_pages pages are archived nothing more is fetched, archived or queued.
C29_FetchedOnce ==
    /\ [](/\ NoDup(fetched)
          /\ NoDup(archived)
          /\ pages_archived = Len(archived)
          /\ pages_archived <= max_pages
          /\ cpc = "done" => (queue = <<>> \/ pages_archived = max_pages))
    /\ [][(queue = <<>> \/ pages_archived >= max_pages) =>
              UNCHANGED <<fetched, archived, queue, visited>>]_vars

\* a finished run in which a URL stood in the queue twice before it was
\* first visited, and which stopped at max_pages with the queue not empty
C29_Witness ==
    /\ cpc = "done"
    /\ Len(seeds) = 2 /\ seeds[1] = seeds[2]
    /\ fetched = <<seeds[1], UrlAY>>
    /\ pages_archived = max_pages
    /\ queue # <<>>

-----------------------------------------------------------------------------
(* Properties of the nesting stacks *)

\* the levels on a stack of (level, node) pairs
Levels(stack) == [i \in 1..Len(stack) |-> stack[i][1]]

\* a stack of levels that still holds the level-0 entry at its bottom and
\* whose levels grow strictly from bottom to top
StackOk(ls) ==
    /\ ls # <<>>
    /\ ls[1] = 0
    /\ \A i \in 1..(Len(ls) - 1) : ls[i] < ls[i + 1]

\* C26: after any sequence of headings, in html_to_outline (both paths) and
\* in _html_to_opml, stack[-1] was never taken on an empty stack, the stack
\* still holds the level-0 entry, and its levels grow strictly from bottom
\* to top.
C26_StackNeverEmpty ==
    /\ (pc = "extracted" /\ route = "html") =>
          ~outline.err /\ StackOk(Levels(outline.stack))
    /\ pc = "saved" => StackOk(opml.stack)

\* three headings of rising, then falling level: extracted, and exported
\* by _html_to_opml
C26_Witness ==
    /\ Len(SeenHeadings) = 3
    /\ SeenHeadings[1].lvl < SeenHeadings[2].lvl
    /\ SeenHeadings[3].lvl < SeenHeadings[2].lvl
    /\ \/ pc = "extracted" /\ route = "html" /\ Len(outline.stack) = 2
       \/ pc = "saved" /\ Len(opml.stack) = 2

-----------------------------------------------------------------------------
(* Properties of the fallback parser *)

\* markup that holds heading elements only
HeadingsOnly(p) ==
    /\ p.kind = "html"
    /\ p.docTitle = <<>>
    /\ \A i \in 1..Len(p.elems) : p.elems[i].tag = "h"

\* C27: for markup of heading elements only, the tree of the fallback
\* parser and the tree of the BeautifulSoup path are the same: the same
\* nodes with the same labels under the same parents in the same order.
C27_FallbackSameTree ==
    (HtmlExtracted /\ HeadingsOnly(payload)) =>
        to_xml(outline.heap, 1, 2, 0)
            = to_xml(html_to_outline(payload, ~haveBs4).heap, 1, 2, 0)

-----------------------------------------------------------------------------
(* Properties of the directory watcher *)

\* C28: when start() has returned, on_change has been invoked for the
\* initial state of the directory, once, whatever the directory holds; every
\* later invocation comes from a tick of the loop that read a set of files
\* different from the one last reported.
C28_InitialFire ==
    /\ wpc \in {"running", "ticking", "stopped"} =>
          /\ reports # <<>>
          /\ reports[1].by = "start"
    /\ \A i \in 2..Len(reports) :
          /\ reports[i].by = "loop"
          /\ reports[i].seen # reports[i - 1].seen

-----------------------------------------------------------------------------
(* Properties of the context capsule *)

\* C30: the capsule returned is never longer than hard_cap_chars.
C30_WithinHardCap ==
    cappc = "done" => Len(capsule) <= hard_cap_chars

====
